---- MODULE Spec2Model ----
(***************************************************************************)
(* Model of the MacrosAndMeals backend: the account hierarchy              *)
(* (SuperAdmin -> Admin -> Trainer -> Customer), the subscription ledger   *)
(* and the payment records, as kept in the relational store, and the      *)
(* request handlers that change them.  Every database call of a handler   *)
(* is one step; a prisma.$transaction keeps its writes pending until its  *)
(* last statement commits them.                                           *)
(***************************************************************************)
EXTENDS Integers, FiniteSets, Sequences, TLC

\* ---------------------------------------------------------------- bounds
NumReqs == 2
\* the account life cycle (Spec)
MaxAdmins == 1
MaxTrainers == 1
MaxCustomers == 1
MaxSubs == 1
MaxPays == 1
\* the subscription ledger (SpecLedger)
LedgerTrainers == 1
LedgerSubs == 2
LedgerPays == 2
\* the capacity check (SpecCapacity)
CapAdmins == 1
CapTrainers == 2
CapCustomers == 3
CapSubs == 2
\* the unlimited-plan model
UnlAdmins == 1
UnlTrainers == 1
UnlCustomers == 2
UnlSubs == 2
\* the registration model
NumEmails == 1
AccessAdmins == 1
AccessTrainers == 1
AccessCustomers == 1
AccessSuperAdmins == 2
\* the account administration model
AdminSuperAdmins == 2
AdminAdmins == 1
AdminTrainers == 1
AdminCustomers == 1
NumPasswords == 1
MaxBulk == 2
AdminSubs == 1
SignupAdmins == 2
SignupTrainers == 2
SignupSubs == 3
KindAdmins == 1
KindTrainers == 1
KindCustomers == 1
KindSubs == 2
SessionAdmins == 1
SessionTrainers == 1
MaxRefresh == 2
RefundSubs == 1
RefundPays == 1

\* ------------------------------------------------------------- constants
NULL == 0
Reqs == 1..NumReqs

Roles == {"SUPER_ADMIN", "ADMIN", "TRAINER", "CUSTOMER"}

\* identifiers are unique over all tables (cuid): one range per table
CustomerBase == 100
TrainerBase == 200
AdminBase == 300
SuperAdminBase == 400
RootId == SuperAdminBase + 1

\* subscription plans
FreeMax == 2
BasicMax == 20
Plans == {"FREE", "BASIC", "CUSTOMER"}

\* getAvailablePlans: the plans offered to a kind of account
PlansFor(role) == IF role = "CUSTOMER" THEN {"CUSTOMER"} ELSE {"FREE", "BASIC"}

PlanMaxCustomers(p) ==
  CASE p = "FREE" -> FreeMax
    [] p = "BASIC" -> BasicMax
    [] OTHER -> NULL

VARIABLES
  superAdmin,    \* table super_admins: set of ids
  admin,         \* table admins: set of [id, superAdminId]
  trainer,       \* table trainers: set of [id, adminId]
  customer,      \* table customers: set of [id, trainerId]
  subscription,  \* table subscriptions
  payment,       \* table payments
  nextId,        \* per table, the number of rows created so far
  scanDesc,      \* the order in which the store scans the subscriptions
  req,           \* the requests in flight, one record per request slot
  profile,       \* per account id, the row's email, status and password
  refreshToken   \* table refresh_tokens

store == <<superAdmin, admin, trainer, customer, subscription, payment, profile, refreshToken>>
vars == <<superAdmin, admin, trainer, customer, subscription, payment, nextId, scanDesc, req,
          profile, refreshToken>>

Ids(table) == {row.id : row \in table}

\* ------------------------------------------------------ request records
\* a field the answer does not carry
Absent == -1
NoAnswer == [canAdd |-> FALSE, currentCustomers |-> Absent, maxCustomers |-> Absent, remaining |-> Absent]

Idle ==
  [op |-> "idle", pc |-> "idle", id |-> NULL, role |-> "NONE", plan |-> "NONE",
   h |-> NULL, pid |-> NULL, sub |-> NULL, via |-> "NONE",
   delPay |-> {}, delSub |-> {}, err |-> "NONE", res |-> "NONE", dep |-> "NONE",
   cap |-> NoAnswer,
   actor |-> "NONE", email |-> NULL, parent |-> NULL, msg |-> <<>>,
   todo |-> <<>>, failed |-> <<>>, successful |-> <<>>, input |-> <<>>,
   summary |-> [total |-> 0, succeeded |-> 0, failed |-> 0],
   paymentId |-> NULL, amount |-> 0]

\* a slot serves one request; the slots are taken in their order
Free(r) == req[r].pc = "idle" /\ \A q \in Reqs : q < r => req[q].pc # "idle"

Finish(rec, err, res) == [rec EXCEPT !.pc = "done", !.err = err, !.res = res]

\* ------------------------------------------------------- account tables
Exists(role, id) ==
  CASE role = "SUPER_ADMIN" -> id \in superAdmin
    [] role = "ADMIN" -> id \in Ids(admin)
    [] role = "TRAINER" -> id \in Ids(trainer)
    [] role = "CUSTOMER" -> id \in Ids(customer)
    [] OTHER -> FALSE

\* prisma.<child>.count({ where: { <parent>Id: userId } })
CountChildren(role, id) ==
  CASE role = "SUPER_ADMIN" -> Cardinality({a \in admin : a.superAdminId = id})
    [] role = "ADMIN" -> Cardinality({t \in trainer : t.adminId = id})
    [] role = "TRAINER" -> Cardinality({c \in customer : c.trainerId = id})
    [] OTHER -> 0

\* the dependent kind the 'Cannot delete ...' message names
DependentKind(role) ==
  CASE role = "SUPER_ADMIN" -> "ADMIN"
    [] role = "ADMIN" -> "TRAINER"
    [] role = "TRAINER" -> "CUSTOMER"
    [] OTHER -> "NONE"

\* the columns of a new account row: admins and trainers start ACTIVE, the
\* other kinds have no status column
NewProfile(role, email, password) ==
  [email |-> email, password |-> password,
   status |-> IF role \in {"ADMIN", "TRAINER"} THEN "ACTIVE" ELSE "NONE"]

Init ==
  /\ superAdmin = {RootId}
  /\ admin = {}
  /\ trainer = {}
  /\ customer = {}
  /\ subscription = {}
  /\ payment = {}
  /\ nextId = [k \in {"SUPER_ADMIN", "ADMIN", "TRAINER", "CUSTOMER", "SUB", "PAY"} |->
                 IF k = "SUPER_ADMIN" THEN 1 ELSE 0]
  /\ scanDesc \in BOOLEAN
  /\ req = [r \in Reqs |-> Idle]
  /\ profile = (RootId :> NewProfile("SUPER_ADMIN", RootId, NULL))
  /\ refreshToken = {}

\* ------------------------------------------------------------ identifiers
BaseOf(role) ==
  CASE role = "SUPER_ADMIN" -> SuperAdminBase
    [] role = "ADMIN" -> AdminBase
    [] role = "TRAINER" -> TrainerBase
    [] OTHER -> CustomerBase

\* the ids a caller can name for a role: every id that table has handed out
KnownIds(role) == {BaseOf(role) + i : i \in 1..nextId[role]}

\* the existing accounts a new account of this role may name as its parent
ParentIds(role) ==
  CASE role = "ADMIN" -> superAdmin
    [] role = "TRAINER" -> Ids(admin)
    [] role = "CUSTOMER" -> Ids(trainer)
    [] OTHER -> {}

\* ------------------------------------------------------------ registration
\* prisma.<role>.create: the new row with its optional parent reference
InsertAccount(role, id, parent) ==
  /\ admin' = IF role = "ADMIN" THEN admin \cup {[id |-> id, superAdminId |-> parent]} ELSE admin
  /\ trainer' = IF role = "TRAINER" THEN trainer \cup {[id |-> id, adminId |-> parent]} ELSE trainer
  /\ customer' = IF role = "CUSTOMER" THEN customer \cup {[id |-> id, trainerId |-> parent]} ELSE customer
  /\ superAdmin' = IF role = "SUPER_ADMIN" THEN superAdmin \cup {id} ELSE superAdmin
  /\ nextId' = [nextId EXCEPT ![role] = @ + 1]

\* the other columns of the new row
InsertProfile(role, id, email, password) ==
  profile' = (id :> NewProfile(role, email, password)) @@ profile

\* prisma.refreshToken.create for the new session of an account
InsertToken(id, role) ==
  refreshToken' = refreshToken \cup
    {[userId |-> id, userRole |-> role,
      n |-> Cardinality({t \in refreshToken : t.userId = id}) + 1, gen |-> 0]}

\* authService.register with an email nobody holds (the account's own id
\* stands for it): one insert into the table of the requested role, then the
\* refresh token of the new account
Register(role, parent) ==
  /\ InsertAccount(role, BaseOf(role) + nextId[role] + 1, parent)
  /\ InsertProfile(role, BaseOf(role) + nextId[role] + 1, BaseOf(role) + nextId[role] + 1, NULL)
  /\ InsertToken(BaseOf(role) + nextId[role] + 1, role)
  /\ UNCHANGED <<subscription, payment, scanDesc, req>>

\* ------------------------------------------------------------ subscriptions
\* the length of the period of a free subscription (30 * 24 * 60 * 60 * 1000
\* milliseconds), in seconds
FreePeriodSeconds == 30 * 24 * 60 * 60

\* the length in seconds of the period createSubscription sets
PeriodSeconds(period) == IF period = "DAYS30" THEN FreePeriodSeconds ELSE 0

\* a new row that is ACTIVE whatever the plan
NewSubscriptionAllActive(id, userId, userType, plan) ==
  [id |-> id, userId |-> userId, userType |-> userType, plan |-> plan,
   status |-> "ACTIVE", stripeSubscriptionId |-> NULL,
   period |-> IF plan = "FREE" THEN "DAYS30" ELSE "NONE",
   adminId |-> NULL, trainerId |-> NULL, customerId |-> NULL]

\* the data of prisma.subscription.create: the columns that reference an
\* account by its kind are not among them and stay unset
NewSubscription(id, userId, userType, plan) ==
  [id |-> id, userId |-> userId, userType |-> userType, plan |-> plan,
   status |-> IF plan = "FREE" THEN "ACTIVE" ELSE "INACTIVE",
   stripeSubscriptionId |-> NULL,
   period |-> IF plan = "FREE" THEN "DAYS30" ELSE "NONE",
   adminId |-> NULL, trainerId |-> NULL, customerId |-> NULL]

\* deleteMany({ where: { userId } }) locks the range of the user's rows until
\* its transaction ends: an insert into that range waits
RangeLocked(userId) ==
  \E r \in Reqs : /\ req[r].op = "deleteUser" /\ req[r].pc = "txAccount" /\ req[r].id = userId
                   /\ req[r].via # "roleKey"

\* subscriptionService.createSubscription: ACTIVE at once on the free plan,
\* INACTIVE (pending payment) on a paid one
InsertSubscription(userId, userType, plan) ==
  /\ ~RangeLocked(userId)
  /\ subscription' = subscription \cup {NewSubscription(nextId["SUB"] + 1, userId, userType, plan)}
  /\ nextId' = [nextId EXCEPT !["SUB"] = @ + 1]

CreateSubscription(userId, userType, plan) ==
  /\ Exists(userType, userId)
  /\ InsertSubscription(userId, userType, plan)
  /\ UNCHANGED <<superAdmin, admin, trainer, customer, payment, scanDesc, req, profile, refreshToken>>

\* authController.registerWithPlan, first write: the account (no parent)
RegisterWithPlan(r, role, plan) ==
  /\ Free(r)
  /\ InsertAccount(role, BaseOf(role) + nextId[role] + 1, NULL)
  /\ InsertProfile(role, BaseOf(role) + nextId[role] + 1, BaseOf(role) + nextId[role] + 1, NULL)
  /\ InsertToken(BaseOf(role) + nextId[role] + 1, role)
  /\ req' = [req EXCEPT ![r] = [Idle EXCEPT !.op = "registerWithPlan", !.pc = "createSubscription",
                                           !.id = BaseOf(role) + nextId[role] + 1,
                                           !.role = role, !.plan = plan]]
  /\ UNCHANGED <<subscription, payment, scanDesc>>

\* an id that no row of subscription_plans carries
MissingPlan == "GONE"
PlanIds == Plans \cup {MissingPlan}

\* prisma.subscriptionPlan.findUnique({ where: { id: planId } })
FindPlan(planId) == IF planId \in Plans THEN planId ELSE "NONE"

\* subscriptionService.createSubscription called for an account with a plan
\* id: the error thrown when the plan is not found, else the new row
CreateSubscriptionCall(r, userId, userType, planId) ==
  /\ Free(r)
  /\ LET call == [Idle EXCEPT !.op = "createSubscription", !.id = userId, !.role = userType,
                              !.plan = planId]
     IN IF FindPlan(planId) = "NONE"
        THEN /\ req' = [req EXCEPT ![r] =
                  [Finish(call, "Error", "ERROR")
                     EXCEPT !.msg = <<"Subscription", "plan", "not", "found">>]]
             /\ UNCHANGED <<subscription, nextId>>
        ELSE /\ InsertSubscription(userId, userType, FindPlan(planId))
             /\ req' = [req EXCEPT ![r] =
                  [Finish(call, "NONE", "CREATED") EXCEPT !.sub = nextId["SUB"] + 1]]
  /\ UNCHANGED <<superAdmin, admin, trainer, customer, payment, scanDesc, profile, refreshToken>>

\* authController.registerWithPlan, after the account: the billing customer
\* is created at the payment processor and createSubscription writes the
\* subscription of the account; the free plan answers at once, a paid plan
\* goes on to its checkout session
RegisterWithPlanSubscribe(r) ==
  /\ req[r].op = "registerWithPlan"
  /\ req[r].pc = "createSubscription"
  /\ InsertSubscription(req[r].id, req[r].role, req[r].plan)
  /\ req' = [req EXCEPT ![r] =
       IF req[r].plan = "FREE" THEN Finish([@ EXCEPT !.sub = nextId["SUB"] + 1], "NONE", "CREATED")
       ELSE [@ EXCEPT !.pc = "checkout", !.sub = nextId["SUB"] + 1]]
  /\ UNCHANGED <<superAdmin, admin, trainer, customer, payment, scanDesc, profile, refreshToken>>

\* authController.registerWithPlan, paid plan: the checkout session is
\* created and the request answers with its url
RegisterWithPlanCheckout(r) ==
  /\ req[r].op = "registerWithPlan"
  /\ req[r].pc = "checkout"
  /\ req' = [req EXCEPT ![r] = Finish(@, "NONE", "CREATED")]
  /\ UNCHANGED <<superAdmin, admin, trainer, customer, subscription, payment, nextId, scanDesc,
                 profile, refreshToken>>

\* authController.registerWithPlan, the catch: creating the billing
\* customer, the subscription or the checkout session throws (the payment
\* processor or the database is unreachable) and the request answers
\* REGISTRATION_ERROR; nothing written before is taken back
RegisterWithPlanFail(r) ==
  /\ req[r].op = "registerWithPlan"
  /\ req[r].pc \in {"createSubscription", "checkout"}
  /\ req' = [req EXCEPT ![r] = Finish(@, "Error", "REGISTRATION_ERROR")]
  /\ UNCHANGED <<superAdmin, admin, trainer, customer, subscription, payment, nextId, scanDesc,
                 profile, refreshToken>>

\* ------------------------------------------------------------- deleteUser
\* the response without the P2025 case
DeleteResponseNoP2025(err) ==
  CASE err = "NONE" -> "OK"
    [] err = "CannotDelete" -> "DELETION_RESTRICTED"
    [] OTHER -> "USER_DELETION_ERROR"

\* the response superAdminController.deleteUser makes of the service's error
DeleteResponse(err) ==
  CASE err = "NONE" -> "OK"
    [] err = "P2025" -> "USER_NOT_FOUND"
    [] err = "CannotDelete" -> "DELETION_RESTRICTED"
    [] OTHER -> "USER_DELETION_ERROR"

\* the guard with the TRAINER case lost
HasDependentsNoTrainer(role, id) == role # "TRAINER" /\ CountChildren(role, id) > 0

\* does the guard of deleteUser refuse the deletion: the target has children
HasDependents(role, id) == CountChildren(role, id) > 0

\* the request arrives; deleteUser counts the children (no count for a
\* CUSTOMER) and either throws 'Cannot delete ...' or goes on to delete
DeleteUser(r, id, role) ==
  /\ Free(r)
  /\ LET rec == [Idle EXCEPT !.op = "deleteUser", !.id = id, !.role = role]
     IN req' = [req EXCEPT ![r] =
          IF HasDependents(role, id)
          THEN [Finish(rec, "CannotDelete", DeleteResponse("CannotDelete"))
                  EXCEPT !.dep = DependentKind(role)]
          ELSE [rec EXCEPT !.pc = IF role = "SUPER_ADMIN" THEN "deleteAccount" ELSE "txPayments"]]
  /\ UNCHANGED <<superAdmin, admin, trainer, customer, subscription, payment, nextId, scanDesc, profile, refreshToken>>

\* the later revision of deleteUser arrives: the same guard, then the
\* cascade keyed by the column of the role
DeleteUserLater(r, id, role) ==
  /\ Free(r)
  /\ LET rec == [Idle EXCEPT !.op = "deleteUser", !.id = id, !.role = role, !.via = "roleKey"]
     IN req' = [req EXCEPT ![r] =
          IF HasDependents(role, id)
          THEN [Finish(rec, "CannotDelete", DeleteResponse("CannotDelete"))
                  EXCEPT !.dep = DependentKind(role)]
          ELSE [rec EXCEPT !.pc = IF role = "SUPER_ADMIN" THEN "deleteAccount" ELSE "txPayments"]]
  /\ UNCHANGED <<superAdmin, admin, trainer, customer, subscription, payment, nextId, scanDesc, profile, refreshToken>>

\* tx.payment.deleteMany({ where: { subscription: { userId } } })
PaymentsOfUser(userId) ==
  {p \in payment : \E s \in subscription : s.id = p.subscriptionId /\ s.userId = userId}

\* tx.subscription.deleteMany({ where: { userId } })
SubscriptionsOfUser(userId) == {s \in subscription : s.userId = userId}

\* the later revision of deleteUser selects the subscriptions by the column
\* that references an account of the role
RoleKeyOf(s, role) ==
  CASE role = "ADMIN" -> s.adminId
    [] role = "TRAINER" -> s.trainerId
    [] OTHER -> s.customerId

\* later revision: tx.subscription.deleteMany({ where: { <role>Id: userId } })
SubscriptionsOfRoleKey(userId, role) == {s \in subscription : RoleKeyOf(s, role) = userId}

\* later revision: tx.payment.deleteMany({ where: { subscription: { <role>Id: userId } } })
PaymentsOfRoleKey(userId, role) ==
  {p \in payment : \E s \in SubscriptionsOfRoleKey(userId, role) : s.id = p.subscriptionId}

\* the rows the deleteMany statements of a request select, by its revision
CascadePayments(r) ==
  IF req[r].via = "roleKey" THEN PaymentsOfRoleKey(req[r].id, req[r].role)
  ELSE PaymentsOfUser(req[r].id)
CascadeSubscriptions(r) ==
  IF req[r].via = "roleKey" THEN SubscriptionsOfRoleKey(req[r].id, req[r].role)
  ELSE SubscriptionsOfUser(req[r].id)

\* the first deletion issued outside the transaction: written at once
TxDeletePaymentsUnbuffered(r) ==
  /\ req[r].op = "deleteUser"
  /\ req[r].pc = "txPayments"
  /\ payment' = payment \ CascadePayments(r)
  /\ req' = [req EXCEPT ![r] = [@ EXCEPT !.pc = "txSubscriptions",
                                         !.delPay = Ids(CascadePayments(r))]]
  /\ UNCHANGED <<superAdmin, admin, trainer, customer, subscription, nextId, scanDesc, profile, refreshToken>>

\* the transaction's first statement: the payments under the user's
\* subscriptions, deleted when the transaction commits
TxDeletePayments(r) ==
  /\ req[r].op = "deleteUser"
  /\ req[r].pc = "txPayments"
  /\ req' = [req EXCEPT ![r] = [@ EXCEPT !.pc = "txSubscriptions",
                                         !.delPay = Ids(CascadePayments(r))]]
  /\ UNCHANGED <<superAdmin, admin, trainer, customer, subscription, payment, nextId, scanDesc, profile, refreshToken>>

\* payments.subscription_id references subscriptions.id: a subscription that
\* still has a payment outside the transaction's deletions cannot be deleted
PaymentFkBlocks(delSub, delPay) ==
  \E p \in payment : p.subscriptionId \in delSub /\ p.id \notin delPay

TxDeleteSubscriptions(r) ==
  /\ req[r].op = "deleteUser"
  /\ req[r].pc = "txSubscriptions"
  /\ LET delSub == Ids(CascadeSubscriptions(r))
     IN req' = [req EXCEPT ![r] =
          IF PaymentFkBlocks(delSub, req[r].delPay)
          THEN Finish(@, "P2003", DeleteResponse("P2003"))
          ELSE [@ EXCEPT !.pc = "txAccount", !.delSub = delSub]]
  /\ UNCHANGED <<superAdmin, admin, trainer, customer, subscription, payment, nextId, scanDesc, profile, refreshToken>>

\* prisma.<role>.delete({ where: { id } }): the row goes, and the foreign keys
\* of its children are ON DELETE SET NULL
RemoveAccount(role, id) ==
  /\ superAdmin' = IF role = "SUPER_ADMIN" THEN superAdmin \ {id} ELSE superAdmin
  /\ admin' =
       IF role = "ADMIN" THEN {a \in admin : a.id # id}
       ELSE IF role = "SUPER_ADMIN"
            THEN {IF a.superAdminId = id THEN [a EXCEPT !.superAdminId = NULL] ELSE a : a \in admin}
            ELSE admin
  /\ trainer' =
       IF role = "TRAINER" THEN {t \in trainer : t.id # id}
       ELSE IF role = "ADMIN"
            THEN {IF t.adminId = id THEN [t EXCEPT !.adminId = NULL] ELSE t : t \in trainer}
            ELSE trainer
  /\ customer' =
       IF role = "CUSTOMER" THEN {c \in customer : c.id # id}
       ELSE IF role = "TRAINER"
            THEN {IF c.trainerId = id THEN [c EXCEPT !.trainerId = NULL] ELSE c : c \in customer}
            ELSE customer
  /\ profile' = [i \in DOMAIN profile \ {id} |-> profile[i]]

\* what the transaction's commit writes: the pending deletions and the account
TxCommit(r) ==
  /\ payment' = {p \in payment : p.id \notin req[r].delPay}
  /\ subscription' = {s \in subscription : s.id \notin req[r].delSub}
  /\ RemoveAccount(req[r].role, req[r].id)

\* tx.<role>.delete, the last statement of the transaction: P2025 (and the
\* roll back of the pending deletions) when the row is gone, else the commit
TxDeleteAccount(r) ==
  /\ req[r].op = "deleteUser"
  /\ req[r].pc = "txAccount"
  /\ IF Exists(req[r].role, req[r].id)
     THEN /\ TxCommit(r)
          /\ req' = [req EXCEPT ![r] = Finish(@, "NONE", DeleteResponse("NONE"))]
     ELSE /\ UNCHANGED <<superAdmin, admin, trainer, customer, subscription, payment, profile>>
          /\ req' = [req EXCEPT ![r] = Finish(@, "P2025", DeleteResponse("P2025"))]
  /\ UNCHANGED <<nextId, scanDesc, refreshToken>>

\* a statement of the transaction fails (the database is unreachable): the
\* transaction rolls back
TxFail(r) ==
  /\ req[r].op = "deleteUser"
  /\ req[r].pc \in {"txPayments", "txSubscriptions", "txAccount"}
  /\ req' = [req EXCEPT ![r] = Finish(@, "Unreachable", DeleteResponse("Unreachable"))]
  /\ UNCHANGED <<superAdmin, admin, trainer, customer, subscription, payment, nextId, scanDesc, profile, refreshToken>>

\* prisma.superAdmin.delete outside any transaction
DeleteSuperAdmin(r) ==
  /\ req[r].op = "deleteUser"
  /\ req[r].pc = "deleteAccount"
  /\ IF Exists("SUPER_ADMIN", req[r].id)
     THEN /\ RemoveAccount("SUPER_ADMIN", req[r].id)
          /\ req' = [req EXCEPT ![r] = Finish(@, "NONE", DeleteResponse("NONE"))]
     ELSE /\ UNCHANGED <<superAdmin, admin, trainer, customer, profile>>
          /\ req' = [req EXCEPT ![r] = Finish(@, "P2025", DeleteResponse("P2025"))]
  /\ UNCHANGED <<subscription, payment, nextId, scanDesc, refreshToken>>

\* ------------------------------------------------------------- the ledger
\* the row a query without orderBy returns first: the store scans the table
\* in an order the query does not fix, the same for every query
FirstRow(rows) ==
  IF rows = {} THEN NULL
  ELSE IF scanDesc THEN (CHOOSE s \in rows : \A t \in rows : t.id <= s.id).id
       ELSE (CHOOSE s \in rows : \A t \in rows : t.id >= s.id).id

\* findFirst({ orderBy: { createdAt: 'desc' } }): ids grow with creation time
NewestRow(rows) ==
  IF rows = {} THEN NULL
  ELSE (CHOOSE s \in rows : \A t \in rows : t.id <= s.id).id

SubById(subs, id) == CHOOSE s \in subs : s.id = id

\* the metadata { userId, role } the payment processor keeps with the
\* subscription it created at checkout for an account
HandleBase == 1000
HandleOf(userId) == HandleBase + userId
MetaUser(h) == h - HandleBase
MetaRole(h) == IF MetaUser(h) > AdminBase THEN "ADMIN" ELSE "TRAINER"
Handles == {HandleOf(u) : u \in KnownIds("ADMIN") \cup KnownIds("TRAINER")}

\* a row whose deletion is pending in an open transaction is locked
Locked(subId) == \E r \in Reqs : req[r].pc = "txAccount" /\ subId \in req[r].delSub

\* prisma.subscription.findFirst({ where: { stripeSubscriptionId } })
FindByHandle(subs, h) == FirstRow({s \in subs : s.stripeSubscriptionId = h})

\* prisma.subscription.findFirst({ where: { userId, userType, status: 'INACTIVE' } })
FindInactive(subs, h) ==
  FirstRow({s \in subs : s.userId = MetaUser(h) /\ s.userType = MetaRole(h)
                         /\ s.status = "INACTIVE"})

\* the update that forgets the handle
ActivatedNoHandle(s, h) == [s EXCEPT !.status = "ACTIVE", !.period = "STRIPE"]

\* the data of both updates of activateSubscription; the first also sets the handle
Activated(s, h) ==
  [s EXCEPT !.status = "ACTIVE", !.period = "STRIPE", !.stripeSubscriptionId = h]

\* stripeSubscriptionId is a unique column (update addresses a row by it)
HandleTaken(subs, id, h) == \E s \in subs : s.id # id /\ s.stripeSubscriptionId = h

\* prisma.subscription.update({ where: { id }, data: { stripeSubscriptionId, ... } })
UpdateById(subs, id, h) ==
  IF id \notin Ids(subs) THEN [err |-> "P2025", subs |-> subs]
  ELSE IF HandleTaken(subs, id, h) THEN [err |-> "P2002", subs |-> subs]
  ELSE [err |-> "NONE", subs |-> {IF s.id = id THEN Activated(s, h) ELSE s : s \in subs}]

\* prisma.subscription.update({ where: { stripeSubscriptionId }, data: { ... } })
UpdateByHandle(subs, h) ==
  IF FindByHandle(subs, h) = NULL THEN [err |-> "P2025", subs |-> subs]
  ELSE [err |-> "NONE",
        subs |-> {IF s.id = FindByHandle(subs, h) THEN Activated(s, h) ELSE s : s \in subs}]

\* what activateSubscription returns: the row, null, or the error rethrown
ActivateResult(err) == IF err = "NONE" THEN "ACTIVATED" ELSE "ERROR"

\* activateSubscription run from its first statement to its last with no
\* other request in between
ActivateRun(subs, h) ==
  IF FindByHandle(subs, h) # NULL
  THEN [res |-> ActivateResult(UpdateByHandle(subs, h).err), subs |-> UpdateByHandle(subs, h).subs]
  ELSE IF FindInactive(subs, h) = NULL
  THEN [res |-> "NOT_FOUND", subs |-> subs]
  ELSE [res |-> ActivateResult(UpdateById(subs, FindInactive(subs, h), h).err),
        subs |-> UpdateById(subs, FindInactive(subs, h), h).subs]

\* activateSubscription arrives: the look up by handle
ActivateSubscription(r, h) ==
  /\ Free(r)
  /\ LET found == FindByHandle(subscription, h)
     IN req' = [req EXCEPT ![r] =
          [Idle EXCEPT !.op = "activateSubscription", !.h = h, !.sub = found,
                       !.via = IF found = NULL THEN "metadata" ELSE "handle",
                       !.pc = IF found = NULL THEN "findInactive" ELSE "updateByHandle"]]
  /\ UNCHANGED <<superAdmin, admin, trainer, customer, subscription, payment, nextId, scanDesc, profile, refreshToken>>

\* no row carries the handle: the INACTIVE row of the account of the metadata
ActivateFindInactive(r) ==
  /\ req[r].op = "activateSubscription"
  /\ req[r].pc = "findInactive"
  /\ LET found == FindInactive(subscription, req[r].h)
     IN req' = [req EXCEPT ![r] =
          IF found = NULL THEN Finish(@, "NONE", "NOT_FOUND")
          ELSE [@ EXCEPT !.pc = "updateById", !.sub = found]]
  /\ UNCHANGED <<superAdmin, admin, trainer, customer, subscription, payment, nextId, scanDesc, profile, refreshToken>>

\* the update of the row found through the metadata
ActivateUpdateById(r) ==
  /\ req[r].op = "activateSubscription"
  /\ req[r].pc = "updateById"
  /\ ~Locked(req[r].sub)
  /\ LET u == UpdateById(subscription, req[r].sub, req[r].h)
     IN /\ subscription' = u.subs
        /\ req' = [req EXCEPT ![r] = Finish(@, u.err, ActivateResult(u.err))]
  /\ UNCHANGED <<superAdmin, admin, trainer, customer, payment, nextId, scanDesc, profile, refreshToken>>

\* the update of the row that carries the handle
ActivateUpdateByHandle(r) ==
  /\ req[r].op = "activateSubscription"
  /\ req[r].pc = "updateByHandle"
  /\ ~Locked(FindByHandle(subscription, req[r].h))
  /\ LET u == UpdateByHandle(subscription, req[r].h)
     IN /\ subscription' = u.subs
        /\ req' = [req EXCEPT ![r] =
             [Finish(@, u.err, ActivateResult(u.err)) EXCEPT !.sub = FindByHandle(subscription, req[r].h)]]
  /\ UNCHANGED <<superAdmin, admin, trainer, customer, payment, nextId, scanDesc, profile, refreshToken>>

\* ---------------------------------------------------------------- payments
\* the payment handle (payment_intent) of the invoices of a subscription
PaymentHandleBase == 2000
PaymentHandleOf(h, k) == PaymentHandleBase * k + h

\* findFirst({ where: { userId, userType, status: { in: ['ACTIVE', 'INACTIVE'] } } })
FindByMetadata(subs, h) ==
  FirstRow({s \in subs : s.userId = MetaUser(h) /\ s.userType = MetaRole(h)
                         /\ s.status \in {"ACTIVE", "INACTIVE"}})

\* update({ where: { id }, data: { stripeSubscriptionId } })
AttachHandle(subs, id, h) ==
  IF id \notin Ids(subs) THEN [err |-> "P2025", subs |-> subs]
  ELSE IF HandleTaken(subs, id, h) THEN [err |-> "P2002", subs |-> subs]
  ELSE [err |-> "NONE",
        subs |-> {IF s.id = id THEN [s EXCEPT !.stripeSubscriptionId = h] ELSE s : s \in subs}]

\* the check that looks for the payment in another column
PaymentExistsWrongColumn(pays, subId, pid) ==
  \E p \in pays : p.subscriptionId = subId /\ p.id = pid

\* prisma.payment.findFirst({ where: { subscriptionId, stripePaymentId } })
PaymentExists(pays, subId, pid) ==
  \E p \in pays : p.subscriptionId = subId /\ p.stripePaymentId = pid

\* the price of a plan, in cents (the payment processor's unit; the amount
\* column keeps cents / 100)
PlanPriceCents(plan) ==
  CASE plan = "FREE" -> 0
    [] plan = "BASIC" -> 5999
    [] OTHER -> 2499

\* the amount (amount_paid, amount_total) of the first payment of a subscription
AmountDue(subs, subId) == PlanPriceCents(SubById(subs, subId).plan)

NewPayment(id, subId, pid, amount) ==
  [id |-> id, subscriptionId |-> subId, stripePaymentId |-> pid, amount |-> amount,
   status |-> "COMPLETED"]

\* the subscription handlePaymentSucceeded records the payment under, and the
\* subscriptions after its look up (which may attach the handle)
PaymentTarget(subs, h) ==
  IF FindByHandle(subs, h) # NULL THEN [sub |-> FindByHandle(subs, h), err |-> "NONE", subs |-> subs]
  ELSE IF FindByMetadata(subs, h) = NULL THEN [sub |-> NULL, err |-> "NONE", subs |-> subs]
  ELSE IF SubById(subs, FindByMetadata(subs, h)).stripeSubscriptionId # NULL
  THEN [sub |-> FindByMetadata(subs, h), err |-> "NONE", subs |-> subs]
  ELSE [sub |-> FindByMetadata(subs, h),
        err |-> AttachHandle(subs, FindByMetadata(subs, h), h).err,
        subs |-> AttachHandle(subs, FindByMetadata(subs, h), h).subs]

\* handlePaymentSucceeded run from its first statement to its last with no
\* other request in between; n is the id of the next payment row
PaymentSucceededRun(subs, pays, n, h, pid) ==
  LET t == PaymentTarget(subs, h)
  IN IF t.sub = NULL THEN [res |-> "NO_SUBSCRIPTION", subs |-> t.subs, pays |-> pays]
     ELSE IF t.err # "NONE" THEN [res |-> "LOGGED", subs |-> t.subs, pays |-> pays]
     ELSE IF PaymentExists(pays, t.sub, pid)
     THEN [res |-> "ALREADY_RECORDED", subs |-> t.subs, pays |-> pays]
     ELSE [res |-> "RECORDED", subs |-> t.subs, pays |-> pays \cup {NewPayment(n, t.sub, pid, AmountDue(t.subs, t.sub))}]

\* invoice.payment_succeeded arrives: the look up of the subscription by handle
HandlePaymentSucceeded(r, h, pid) ==
  /\ Free(r)
  /\ LET found == FindByHandle(subscription, h)
     IN req' = [req EXCEPT ![r] =
          [Idle EXCEPT !.op = "handlePaymentSucceeded", !.h = h, !.pid = pid, !.sub = found,
                       !.via = IF found = NULL THEN "metadata" ELSE "handle",
                       !.pc = IF found = NULL THEN "findByMetadata" ELSE "findPayment"]]
  /\ UNCHANGED <<superAdmin, admin, trainer, customer, subscription, payment, nextId, scanDesc, profile, refreshToken>>

\* not found by handle: a subscription of the account named in the metadata
PaymentFindByMetadata(r) ==
  /\ req[r].op = "handlePaymentSucceeded"
  /\ req[r].pc = "findByMetadata"
  /\ LET found == FindByMetadata(subscription, req[r].h)
     IN req' = [req EXCEPT ![r] =
          IF found = NULL THEN Finish(@, "NONE", "NO_SUBSCRIPTION")
          ELSE [@ EXCEPT !.sub = found,
                         !.pc = IF SubById(subscription, found).stripeSubscriptionId = NULL
                                THEN "attachHandle" ELSE "findPayment"]]
  /\ UNCHANGED <<superAdmin, admin, trainer, customer, subscription, payment, nextId, scanDesc, profile, refreshToken>>

\* the handle is attached to the row found through the metadata; the handler
\* catches (and logs) whatever is thrown
PaymentAttachHandle(r) ==
  /\ req[r].op = "handlePaymentSucceeded"
  /\ req[r].pc = "attachHandle"
  /\ ~Locked(req[r].sub)
  /\ LET u == AttachHandle(subscription, req[r].sub, req[r].h)
     IN /\ subscription' = u.subs
        /\ req' = [req EXCEPT ![r] =
             IF u.err = "NONE" THEN [@ EXCEPT !.pc = "findPayment"] ELSE Finish(@, u.err, "LOGGED")]
  /\ UNCHANGED <<superAdmin, admin, trainer, customer, payment, nextId, scanDesc, profile, refreshToken>>

\* the check for a payment already recorded with this handle
PaymentFindExisting(r) ==
  /\ req[r].op = "handlePaymentSucceeded"
  /\ req[r].pc = "findPayment"
  /\ req' = [req EXCEPT ![r] =
       IF PaymentExists(payment, req[r].sub, req[r].pid)
       THEN Finish(@, "NONE", "ALREADY_RECORDED")
       ELSE [@ EXCEPT !.pc = "createPayment"]]
  /\ UNCHANGED <<superAdmin, admin, trainer, customer, subscription, payment, nextId, scanDesc, profile, refreshToken>>

\* prisma.payment.create; the subscription must exist (foreign key)
PaymentCreate(r) ==
  /\ req[r].op = "handlePaymentSucceeded"
  /\ req[r].pc = "createPayment"
  /\ ~Locked(req[r].sub)
  /\ IF req[r].sub \notin Ids(subscription)
     THEN /\ req' = [req EXCEPT ![r] = Finish(@, "P2003", "LOGGED")]
          /\ UNCHANGED <<payment, nextId>>
     ELSE /\ payment' = payment \cup {NewPayment(nextId["PAY"] + 1, req[r].sub, req[r].pid,
                                                 AmountDue(subscription, req[r].sub))}
          /\ nextId' = [nextId EXCEPT !["PAY"] = @ + 1]
          /\ req' = [req EXCEPT ![r] = Finish(@, "NONE", "RECORDED")]
  /\ UNCHANGED <<superAdmin, admin, trainer, customer, subscription, scanDesc, profile, refreshToken>>

\* ------------------------------------------------------ checkout completed
\* the payment handle `checkout_${session.id}` of the checkout session that
\* created the subscription with handle h
CheckoutHandleBase == 5000
CheckoutHandleOf(h) == CheckoutHandleBase + h

\* prisma.payment.findFirst({ where: { subscriptionId, amount } })
PaymentOfAmount(pays, subId, amount) ==
  \E p \in pays : p.subscriptionId = subId /\ p.amount = amount

\* handleCheckoutCompleted run from its first statement to its last: the
\* subscription is activated, and the initial payment is recorded under it
\* unless the session has no amount or a payment of that amount is there;
\* the handler catches (and logs) whatever is thrown
CheckoutCompletedRun(subs, pays, n, h) ==
  LET act == ActivateRun(subs, h)
      sub == FindByHandle(act.subs, h)
  IN IF act.res = "ERROR" THEN [res |-> "LOGGED", subs |-> act.subs, pays |-> pays]
     ELSE IF act.res = "NOT_FOUND" THEN [res |-> "NO_SUBSCRIPTION", subs |-> act.subs, pays |-> pays]
     ELSE IF AmountDue(act.subs, sub) = 0
     THEN [res |-> "NO_AMOUNT", subs |-> act.subs, pays |-> pays]
     ELSE IF PaymentOfAmount(pays, sub, AmountDue(act.subs, sub))
     THEN [res |-> "ALREADY_RECORDED", subs |-> act.subs, pays |-> pays]
     ELSE [res |-> "RECORDED", subs |-> act.subs,
           pays |-> pays \cup {NewPayment(n, sub, CheckoutHandleOf(h), AmountDue(act.subs, sub))}]

\* checkout.session.completed arrives and is handled
HandleCheckoutCompleted(r, h) ==
  /\ Free(r)
  /\ LET run == CheckoutCompletedRun(subscription, payment, nextId["PAY"] + 1, h)
     IN /\ \A s \in subscription : s.stripeSubscriptionId = h \/ s.status = "INACTIVE"
                                      => ~Locked(s.id)
        /\ subscription' = run.subs
        /\ payment' = run.pays
        /\ nextId' = [nextId EXCEPT !["PAY"] = IF run.res = "RECORDED" THEN @ + 1 ELSE @]
        /\ req' = [req EXCEPT ![r] =
             Finish([Idle EXCEPT !.op = "handleCheckoutCompleted", !.h = h,
                                 !.pid = CheckoutHandleOf(h),
                                 !.sub = FindByHandle(run.subs, h)],
                    "NONE", run.res)]
  /\ UNCHANGED <<superAdmin, admin, trainer, customer, scanDesc, profile, refreshToken>>

\* ---------------------------------------------------------- customer limit
\* subscriptionService.getUserSubscription: the row created last
GetUserSubscription(userId, userType) ==
  NewestRow({s \in subscription : s.userId = userId /\ s.userType = userType})

\* the customers counted for a TRAINER (its own) and for an ADMIN (those of
\* the trainers it manages)
CurrentCustomers(userId, userType) ==
  IF userType = "TRAINER" THEN Cardinality({c \in customer : c.trainerId = userId})
  ELSE IF userType = "ADMIN"
  THEN Cardinality({c \in customer : c.trainerId \in Ids({t \in trainer : t.adminId = userId})})
  ELSE 0

\* plan.maxCustomers || 0
MaxCustomersOrZero(plan) == IF PlanMaxCustomers(plan) = NULL THEN 0 ELSE PlanMaxCustomers(plan)

\* the comparison that lets one customer too many in
BelowLimitInclusive(current, max) == current <= max

\* currentCustomers < maxCustomers
BelowLimit(current, max) == current < max

\* subscriptionService.canAddCustomer
CanAddCustomer(userId, userType) ==
  LET sub == GetUserSubscription(userId, userType)
  IN IF sub = NULL \/ SubById(subscription, sub).status # "ACTIVE"
     THEN [canAdd |-> FALSE, currentCustomers |-> 0, maxCustomers |-> 0, remaining |-> 0]
     ELSE IF userType = "CUSTOMER"
     THEN [canAdd |-> TRUE, currentCustomers |-> Absent, maxCustomers |-> Absent, remaining |-> Absent]
     ELSE LET current == CurrentCustomers(userId, userType)
              max == MaxCustomersOrZero(SubById(subscription, sub).plan)
          IN [canAdd |-> BelowLimit(current, max), currentCustomers |-> current,
              maxCustomers |-> max, remaining |-> max - current]

\* a caller asks whether the account may take one more customer
CheckCanAddCustomer(r, userId, userType) ==
  /\ Free(r)
  /\ req' = [req EXCEPT ![r] =
       [Finish(Idle, "NONE", "ANSWERED") EXCEPT !.op = "canAddCustomer", !.id = userId,
                                               !.role = userType,
                                               !.cap = CanAddCustomer(userId, userType)]]
  /\ UNCHANGED <<superAdmin, admin, trainer, customer, subscription, payment, nextId, scanDesc, profile, refreshToken>>

\* ------------------------------------------------- the account life cycle
Table(role) == IF role = "ADMIN" THEN admin ELSE IF role = "TRAINER" THEN trainer ELSE customer

MaxOf(role) ==
  CASE role = "ADMIN" -> MaxAdmins
    [] role = "TRAINER" -> MaxTrainers
    [] OTHER -> MaxCustomers

Next ==
  \/ \E role \in {"ADMIN", "TRAINER", "CUSTOMER"} : \E parent \in ParentIds(role) \cup {NULL} :
       nextId[role] < MaxOf(role) /\ Register(role, parent)
  \/ \E role \in {"ADMIN", "TRAINER", "CUSTOMER"} : \E id \in Ids(Table(role)) : \E plan \in PlansFor(role) :
       nextId["SUB"] < MaxSubs /\ CreateSubscription(id, role, plan)
  \/ \E r \in Reqs, role \in {"ADMIN", "TRAINER"}, plan \in {"FREE", "BASIC"} :
       nextId[role] < MaxOf(role) /\ RegisterWithPlan(r, role, plan)
  \/ \E r \in Reqs : nextId["SUB"] < MaxSubs /\ RegisterWithPlanSubscribe(r)
  \/ \E r \in Reqs : RegisterWithPlanCheckout(r)
  \/ \E r \in Reqs, role \in Roles : \E id \in KnownIds(role) : DeleteUser(r, id, role)
  \/ \E r \in Reqs : TxDeletePayments(r)
  \/ \E r \in Reqs : TxDeleteSubscriptions(r)
  \/ \E r \in Reqs : TxDeleteAccount(r)
  \/ \E r \in Reqs : TxFail(r)
  \/ \E r \in Reqs : DeleteSuperAdmin(r)
  \/ \E r \in Reqs : \E h \in Handles : HandlePaymentSucceeded(r, h, PaymentHandleOf(h, 1))
  \/ \E r \in Reqs : PaymentFindByMetadata(r)
  \/ \E r \in Reqs : PaymentAttachHandle(r)
  \/ \E r \in Reqs : PaymentFindExisting(r)
  \/ \E r \in Reqs : nextId["PAY"] < MaxPays /\ PaymentCreate(r)

Spec == Init /\ [][Next]_vars

\* ------------------------------------------------- the subscription ledger
NextLedger ==
  \/ nextId["TRAINER"] < LedgerTrainers /\ Register("TRAINER", NULL)
  \/ \E id \in Ids(trainer) : \E plan \in PlansFor("TRAINER") :
       nextId["SUB"] < LedgerSubs /\ CreateSubscription(id, "TRAINER", plan)
  \/ \E r \in Reqs : \E h \in Handles : ActivateSubscription(r, h)
  \/ \E r \in Reqs : ActivateFindInactive(r)
  \/ \E r \in Reqs : ActivateUpdateById(r)
  \/ \E r \in Reqs : ActivateUpdateByHandle(r)
  \/ \E r \in Reqs : \E h \in Handles : HandlePaymentSucceeded(r, h, PaymentHandleOf(h, 1))
  \/ \E r \in Reqs : PaymentFindByMetadata(r)
  \/ \E r \in Reqs : PaymentAttachHandle(r)
  \/ \E r \in Reqs : PaymentFindExisting(r)
  \/ \E r \in Reqs : nextId["PAY"] < LedgerPays /\ PaymentCreate(r)

SpecLedger == Init /\ [][NextLedger]_vars

\* ------------------------------------------------------ the capacity check
CapOf(role) ==
  CASE role = "ADMIN" -> CapAdmins
    [] role = "TRAINER" -> CapTrainers
    [] OTHER -> CapCustomers

NextCapacity ==
  \/ \E role \in {"ADMIN", "TRAINER", "CUSTOMER"} : \E parent \in ParentIds(role) \cup {NULL} :
       nextId[role] < CapOf(role) /\ Register(role, parent)
  \/ \E role \in {"ADMIN", "TRAINER"} : \E id \in Ids(Table(role)) : \E plan \in PlansFor(role) :
       nextId["SUB"] < CapSubs /\ CreateSubscription(id, role, plan)
  \/ \E r \in Reqs, role \in {"ADMIN", "TRAINER"} : \E id \in Ids(Table(role)) :
       CheckCanAddCustomer(r, id, role)

SpecCapacity == Init /\ [][NextCapacity]_vars

\* ----------------------------------------------- plans without a limit
UnlOf(role) ==
  CASE role = "ADMIN" -> UnlAdmins
    [] role = "TRAINER" -> UnlTrainers
    [] OTHER -> UnlCustomers

\* createSubscription takes any plan of the catalog for any kind of account
NextUnlimited ==
  \/ \E role \in {"ADMIN", "TRAINER", "CUSTOMER"} : \E parent \in ParentIds(role) \cup {NULL} :
       nextId[role] < UnlOf(role) /\ Register(role, parent)
  \/ \E role \in {"ADMIN", "TRAINER"} : \E id \in Ids(Table(role)) : \E plan \in Plans :
       nextId["SUB"] < UnlSubs /\ CreateSubscription(id, role, plan)
  \/ \E r \in Reqs : \E h \in Handles : ActivateSubscription(r, h)
  \/ \E r \in Reqs : ActivateFindInactive(r)
  \/ \E r \in Reqs : ActivateUpdateById(r)
  \/ \E r \in Reqs : ActivateUpdateByHandle(r)
  \/ \E r \in Reqs, role \in {"ADMIN", "TRAINER"} : \E id \in Ids(Table(role)) :
       CheckCanAddCustomer(r, id, role)

SpecUnlimited == Init /\ [][NextUnlimited]_vars

\* ------------------------------------------------ the registration endpoint
\* emails a caller may choose, besides those already held
Emails == 1..NumEmails
HeldEmails == {profile[i].email : i \in DOMAIN profile}

\* the caller of POST /register: the role of its token, or NONE without a
\* valid token (optionalAuth leaves req.user unset)
Actors == Roles \cup {"NONE"}

\* authController.register: the role-based authorization check
RegisterDenied(actor, role) ==
  /\ actor # "NONE"
  /\ \/ role = "SUPER_ADMIN" /\ actor # "SUPER_ADMIN"
     \/ role = "ADMIN" /\ actor \notin {"SUPER_ADMIN"}
     \/ role = "TRAINER" /\ actor \notin {"SUPER_ADMIN", "ADMIN"}

\* the rows of a kind holding an email
HoldersIn(role, email) == {i \in DOMAIN profile : Exists(role, i) /\ profile[i].email = email}

\* the lookup that forgets the customers table
FindUserByEmailNoCustomers(email) ==
  IF HoldersIn("SUPER_ADMIN", email) # {} THEN "SUPER_ADMIN"
  ELSE IF HoldersIn("ADMIN", email) # {} THEN "ADMIN"
  ELSE IF HoldersIn("TRAINER", email) # {} THEN "TRAINER"
  ELSE "NONE"

\* authService.findUserByEmail: the four tables in their order, first match
FindUserByEmail(email) ==
  IF HoldersIn("SUPER_ADMIN", email) # {} THEN "SUPER_ADMIN"
  ELSE IF HoldersIn("ADMIN", email) # {} THEN "ADMIN"
  ELSE IF HoldersIn("TRAINER", email) # {} THEN "TRAINER"
  ELSE IF HoldersIn("CUSTOMER", email) # {} THEN "CUSTOMER"
  ELSE "NONE"

ParentRole(role) ==
  CASE role = "ADMIN" -> "SUPER_ADMIN"
    [] role = "TRAINER" -> "ADMIN"
    [] role = "CUSTOMER" -> "TRAINER"
    [] OTHER -> "NONE"

\* authController.register: the response to an error of the service
RegisterResponse(err) ==
  CASE err = "NONE" -> "REGISTERED"
    [] err = "Forbidden" -> "INSUFFICIENT_PERMISSIONS"
    [] err = "AlreadyExists" -> "USER_EXISTS"
    [] OTHER -> "REGISTRATION_FAILED"

\* POST /register up to the first read of the store: the role check of the
\* controller, then findUserByEmail
RegisterRequest(r, actor, role, parent, email) ==
  /\ Free(r)
  /\ LET rec == [Idle EXCEPT !.op = "register", !.actor = actor, !.role = role,
                             !.parent = parent, !.email = email]
     IN req' = [req EXCEPT ![r] =
          IF RegisterDenied(actor, role)
          THEN Finish(rec, "Forbidden", RegisterResponse("Forbidden"))
          ELSE IF FindUserByEmail(email) # "NONE"
          THEN Finish(rec, "AlreadyExists", RegisterResponse("AlreadyExists"))
          ELSE [rec EXCEPT !.pc = "create"]]
  /\ UNCHANGED <<superAdmin, admin, trainer, customer, subscription, payment, nextId, scanDesc,
                 profile, refreshToken>>

\* prisma.<role>.create: the unique index on the table's email column and the
\* foreign key of the parent column can refuse the row
RegisterCreate(r) ==
  /\ req[r].op = "register"
  /\ req[r].pc = "create"
  /\ LET role == req[r].role
         id == BaseOf(role) + nextId[role] + 1
     IN IF HoldersIn(role, req[r].email) # {}
        THEN /\ req' = [req EXCEPT ![r] = Finish(@, "P2002", RegisterResponse("P2002"))]
             /\ UNCHANGED <<superAdmin, admin, trainer, customer, nextId, profile>>
        ELSE IF req[r].parent # NULL /\ ~Exists(ParentRole(role), req[r].parent)
        THEN /\ req' = [req EXCEPT ![r] = Finish(@, "P2003", RegisterResponse("P2003"))]
             /\ UNCHANGED <<superAdmin, admin, trainer, customer, nextId, profile>>
        ELSE /\ InsertAccount(role, id, req[r].parent)
             /\ InsertProfile(role, id, req[r].email, NULL)
             /\ req' = [req EXCEPT ![r] = [@ EXCEPT !.pc = "token", !.id = id]]
  /\ UNCHANGED <<subscription, payment, scanDesc, refreshToken>>

\* prisma.refreshToken.create, then the 201 response
RegisterToken(r) ==
  /\ req[r].op = "register"
  /\ req[r].pc = "token"
  /\ InsertToken(req[r].id, req[r].role)
  /\ req' = [req EXCEPT ![r] = Finish(@, "NONE", RegisterResponse("NONE"))]
  /\ UNCHANGED <<superAdmin, admin, trainer, customer, subscription, payment, nextId, scanDesc,
                 profile>>

\* ------------------------------------------------------------ updateUser
\* superAdminController.updateUser: the response to an error of the service
UpdateResponse(err) ==
  CASE err = "NONE" -> "UPDATED"
    [] err = "P2025" -> "USER_NOT_FOUND"
    [] err = "P2002" -> "EMAIL_ALREADY_EXISTS"
    [] OTHER -> "USER_UPDATE_ERROR"

\* the message of Prisma's P2025
NotFoundMessage == <<"Record", "to", "update", "not", "found", ".">>

\* the values of the status column of admins and trainers
StatusEnum == {"ACTIVE", "INACTIVE", "SUSPENDED"}

\* the status of a request body: none, a value of the column in either case,
\* or a word that is no value of the column
StatusPayloads == {"NONE", "suspended", "active", "INACTIVE", "banned"}

\* String.prototype.toUpperCase on the words above
ToUpperCase(word) ==
  CASE word = "suspended" -> "SUSPENDED"
    [] word = "active" -> "ACTIVE"
    [] word = "inactive" -> "INACTIVE"
    [] word = "banned" -> "BANNED"
    [] OTHER -> word

\* the outcome of prisma.<role>.update({ where: { id }, data }): the data
\* must fit the columns (a status outside the enum is refused before any
\* statement is sent), the row must exist, and the unique index of its table
\* must admit the new email
UpdateError(role, id, email, status) ==
  IF role \in {"ADMIN", "TRAINER"} /\ status # "NONE" /\ ToUpperCase(status) \notin StatusEnum
  THEN "VALIDATION"
  ELSE IF ~Exists(role, id) THEN "P2025"
  ELSE IF email # NULL /\ HoldersIn(role, email) \ {id} # {} THEN "P2002"
  ELSE "NONE"

\* an update that writes the status for every kind of account
UpdatedProfileAnyKind(role, id, email, status) ==
  [profile[id] EXCEPT
     !.email = IF email # NULL THEN email ELSE @,
     !.status = IF status # "NONE" THEN ToUpperCase(status) ELSE @]

\* the row after the update: email when given, status (in upper case) when
\* given and the kind has the column
UpdatedProfile(role, id, email, status) ==
  [profile[id] EXCEPT
     !.email = IF email # NULL THEN email ELSE @,
     !.status = IF status # "NONE" /\ role \in {"ADMIN", "TRAINER"}
                THEN ToUpperCase(status) ELSE @]

\* the message of the error the update throws
UpdateMessage(err) ==
  CASE err = "NONE" -> <<>>
    [] err = "P2025" -> NotFoundMessage
    [] err = "P2002" -> <<"Unique", "constraint", "failed">>
    [] OTHER -> <<"Invalid", "value", "for", "argument", "status">>

\* superAdminService.updateUser
UpdateUserResult(role, id, email, status) ==
  LET err == UpdateError(role, id, email, status)
  IN [err |-> err, msg |-> UpdateMessage(err),
      profile |-> IF err = "NONE"
                  THEN [profile EXCEPT ![id] = UpdatedProfile(role, id, email, status)]
                  ELSE profile]

\* PUT /users/:id
UpdateUser(r, id, role, email, status) ==
  /\ Free(r)
  /\ LET out == UpdateUserResult(role, id, email, status)
     IN /\ req' = [req EXCEPT ![r] =
               Finish([Idle EXCEPT !.op = "updateUser", !.actor = "SUPER_ADMIN", !.id = id,
                                   !.role = role, !.email = email],
                      out.err, UpdateResponse(out.err))]
        /\ profile' = out.profile
  /\ UNCHANGED <<superAdmin, admin, trainer, customer, subscription, payment, nextId, scanDesc,
                 refreshToken>>

\* ---------------------------------------------------- the hierarchy guard
\* a role tag the hierarchy does not know
UnknownRole == "MANAGER"
RoleTags == Roles \cup {UnknownRole}

\* roleHierarchy[role]: undefined for a tag that is no key of the table
RoleLevel(role) ==
  CASE role = "CUSTOMER" -> 0
    [] role = "TRAINER" -> 1
    [] role = "ADMIN" -> 2
    [] role = "SUPER_ADMIN" -> 3
    [] OTHER -> Absent

\* a < b in JavaScript: false when either side is undefined
JsLess(a, b) == a # Absent /\ b # Absent /\ a < b

\* userLevel < requiredLevel
HierarchyDenied(actor, minimumRole) == JsLess(RoleLevel(actor), RoleLevel(minimumRole))

\* authorizeHierarchy(minimumRole) on a request of the given caller
AuthorizeHierarchy(r, actor, minimumRole) ==
  /\ Free(r)
  /\ req' = [req EXCEPT ![r] =
       Finish([Idle EXCEPT !.op = "authorizeHierarchy", !.actor = actor, !.role = minimumRole],
              "NONE",
              IF actor = "NONE" THEN "NOT_AUTHENTICATED"
              ELSE IF HierarchyDenied(actor, minimumRole) THEN "INSUFFICIENT_ROLE_LEVEL"
              ELSE "ADMITTED")]
  /\ UNCHANGED <<superAdmin, admin, trainer, customer, subscription, payment, nextId, scanDesc,
                 profile, refreshToken>>

\* ------------------------------------------------- registration and update
AccessOf(role) ==
  CASE role = "SUPER_ADMIN" -> AccessSuperAdmins
    [] role = "ADMIN" -> AccessAdmins
    [] role = "TRAINER" -> AccessTrainers
    [] OTHER -> AccessCustomers

NextAccess ==
  \/ \E r \in Reqs, actor \in Actors, role \in Roles :
       \E parent \in ParentIds(role) \cup {NULL}, email \in Emails \cup HeldEmails :
         nextId[role] < AccessOf(role) /\ RegisterRequest(r, actor, role, parent, email)
  \/ \E r \in Reqs : RegisterCreate(r)
  \/ \E r \in Reqs : RegisterToken(r)
  \/ \E r \in Reqs, role \in Roles : \E id \in KnownIds(role) :
       \E email \in Emails \cup HeldEmails \cup {NULL}, status \in {"NONE", "INACTIVE", "SUSPENDED"} :
         UpdateUser(r, id, role, email, status)

SpecAccess == Init /\ [][NextAccess]_vars

\* ------------------------------------------------ requests through the guard
NextGuard ==
  \E r \in Reqs, actor \in RoleTags \cup {"NONE"}, minimumRole \in RoleTags :
    AuthorizeHierarchy(r, actor, minimumRole)

SpecGuard == Init /\ [][NextGuard]_vars

\* ------------------------------------------------- suspend and activate
\* error.message.includes(phrase), on messages split into words
Includes(msg, phrase) ==
  \E i \in 1..(Len(msg) - Len(phrase) + 1) : SubSeq(msg, i, i + Len(phrase) - 1) = phrase

\* suspendUser: the messages thrown for the kinds without a status
SuspendMessage(role) ==
  IF role = "SUPER_ADMIN" THEN <<"Cannot", "suspend", "Super", "Admin", "accounts">>
  ELSE <<"Customer", "accounts", "cannot", "be", "suspended", "directly", ".",
         "Use", "subscription", "management", "instead", ".">>

\* activateUser: the messages thrown for the kinds without a status
ActivateMessage(role) ==
  IF role = "SUPER_ADMIN" THEN <<"Super", "Admin", "accounts", "are", "always", "active">>
  ELSE <<"Customer", "accounts", "are", "always", "active", ".",
         "Use", "subscription", "management", "instead", ".">>

\* a status update that serves trainers only
SetStatusTrainersOnly(role, id, status, refusal) ==
  IF role # "TRAINER" THEN [err |-> "Error", msg |-> refusal, profile |-> profile]
  ELSE IF ~Exists(role, id) THEN [err |-> "P2025", msg |-> NotFoundMessage, profile |-> profile]
  ELSE [err |-> "NONE", msg |-> <<>>, profile |-> [profile EXCEPT ![id].status = status]]

\* the switch of suspendUser and activateUser: the update of the status for
\* an ADMIN or TRAINER, the refusal thrown for the other kinds
SetStatus(role, id, status, refusal) ==
  IF role \in {"SUPER_ADMIN", "CUSTOMER"}
  THEN [err |-> "Error", msg |-> refusal, profile |-> profile]
  ELSE IF ~Exists(role, id) THEN [err |-> "P2025", msg |-> NotFoundMessage, profile |-> profile]
  ELSE [err |-> "NONE", msg |-> <<>>, profile |-> [profile EXCEPT ![id].status = status]]

\* superAdminService.suspendUser
SuspendUserResult(role, id) == SetStatus(role, id, "INACTIVE", SuspendMessage(role))

\* superAdminService.activateUser
ActivateUserResult(role, id) == SetStatus(role, id, "ACTIVE", ActivateMessage(role))

\* superAdminController.suspendUser: the response
SuspendResponse(err, msg) ==
  IF err = "NONE" THEN "SUSPENDED"
  ELSE IF err = "P2025" THEN "USER_NOT_FOUND"
  ELSE IF Includes(msg, <<"Cannot", "suspend">>) THEN "SUSPENSION_NOT_ALLOWED"
  ELSE "USER_SUSPENSION_ERROR"

\* superAdminController.activateUser: the response
ActivateResponse(err, msg) ==
  IF err = "NONE" THEN "ACTIVATED"
  ELSE IF err = "P2025" THEN "USER_NOT_FOUND"
  ELSE IF Includes(msg, <<"Super", "Admin">>) \/ Includes(msg, <<"always", "active">>)
  THEN "ACTIVATION_NOT_ALLOWED"
  ELSE "USER_ACTIVATION_ERROR"

AdminRequest(op, id, role) ==
  [Idle EXCEPT !.op = op, !.actor = "SUPER_ADMIN", !.id = id, !.role = role]

\* POST /users/:id/suspend
SuspendUser(r, id, role) ==
  /\ Free(r)
  /\ LET out == SuspendUserResult(role, id)
     IN /\ profile' = out.profile
        /\ req' = [req EXCEPT ![r] =
             [Finish(AdminRequest("suspendUser", id, role), out.err,
                     SuspendResponse(out.err, out.msg)) EXCEPT !.msg = out.msg]]
  /\ UNCHANGED <<superAdmin, admin, trainer, customer, subscription, payment, nextId, scanDesc,
                 refreshToken>>

\* POST /users/:id/activate
ActivateUser(r, id, role) ==
  /\ Free(r)
  /\ LET out == ActivateUserResult(role, id)
     IN /\ profile' = out.profile
        /\ req' = [req EXCEPT ![r] =
             [Finish(AdminRequest("activateUser", id, role), out.err,
                     ActivateResponse(out.err, out.msg)) EXCEPT !.msg = out.msg]]
  /\ UNCHANGED <<superAdmin, admin, trainer, customer, subscription, payment, nextId, scanDesc,
                 refreshToken>>

\* ------------------------------------------ reset password, impersonate
Passwords == 1..NumPasswords

\* superAdminService.resetUserPassword: an update of the password for every
\* kind of account
ResetUserPasswordResult(role, id, password) ==
  IF ~Exists(role, id) THEN [err |-> "P2025", msg |-> NotFoundMessage, profile |-> profile]
  ELSE [err |-> "NONE", msg |-> <<>>, profile |-> [profile EXCEPT ![id].password = password]]

\* superAdminController.resetUserPassword: the response
ResetResponse(err) ==
  IF err = "NONE" THEN "PASSWORD_RESET"
  ELSE IF err = "P2025" THEN "USER_NOT_FOUND"
  ELSE "PASSWORD_RESET_ERROR"

\* POST /users/:id/reset-password
ResetUserPassword(r, id, role, password) ==
  /\ Free(r)
  /\ LET out == ResetUserPasswordResult(role, id, password)
     IN /\ profile' = out.profile
        /\ req' = [req EXCEPT ![r] =
             [Finish(AdminRequest("resetUserPassword", id, role), out.err, ResetResponse(out.err))
                EXCEPT !.msg = out.msg]]
  /\ UNCHANGED <<superAdmin, admin, trainer, customer, subscription, payment, nextId, scanDesc,
                 refreshToken>>

\* createImpersonationSession: the message thrown, or none when the session
\* is created
ImpersonateMessage(role, id) ==
  IF role = "SUPER_ADMIN" THEN <<"Cannot", "impersonate", "Super", "Admin", "accounts">>
  ELSE IF ~Exists(role, id) THEN <<"Target", "user", "not", "found">>
  ELSE IF profile[id].status \notin {"NONE", "ACTIVE"}
  THEN <<"Cannot", "impersonate", "inactive", "user">>
  ELSE <<>>

\* superAdminController.impersonateUser: the response
ImpersonateResponse(msg) ==
  IF msg = <<>> THEN "IMPERSONATING"
  ELSE IF Includes(msg, <<"not", "found">>) THEN "USER_NOT_FOUND"
  ELSE IF Includes(msg, <<"Cannot", "impersonate">>) \/ Includes(msg, <<"inactive">>)
  THEN "IMPERSONATION_NOT_ALLOWED"
  ELSE "IMPERSONATION_ERROR"

\* POST /users/:id/impersonate
ImpersonateUser(r, id, role) ==
  /\ Free(r)
  /\ LET msg == ImpersonateMessage(role, id)
     IN req' = [req EXCEPT ![r] =
          [Finish(AdminRequest("impersonateUser", id, role),
                  IF msg = <<>> THEN "NONE" ELSE "Error", ImpersonateResponse(msg))
             EXCEPT !.msg = msg]]
  /\ UNCHANGED <<superAdmin, admin, trainer, customer, subscription, payment, nextId, scanDesc,
                 profile, refreshToken>>

\* ---------------------------------------------------------- bulk operations
\* the data of an operation that carries none
NoData == [status |-> "NONE", newPassword |-> NULL]

\* bulk operations that suspend and activate
BulkItems ==
  UNION {{[userId |-> id, userRole |-> role, action |-> action, data |-> NoData] :
            id \in KnownIds(role), action \in {"SUSPEND", "ACTIVATE"}} : role \in Roles}

BulkInputs(n) == UNION {[1..k -> BulkItems] : k \in 1..n}

\* bulk operations of four of the five actions, with the data of UPDATE (a
\* status of the enum or not) and of RESET_PASSWORD (a password or none)
BulkData(action) ==
  CASE action = "UPDATE" -> {[NoData EXCEPT !.status = st] : st \in {"suspended", "banned"}}
    [] action = "RESET_PASSWORD" ->
         {[NoData EXCEPT !.newPassword = pw] : pw \in Passwords \cup {NULL}}
    [] OTHER -> {NoData}

BulkActions == {"SUSPEND", "ACTIVATE", "UPDATE", "RESET_PASSWORD"}

BulkItemsOf(roles) ==
  UNION {{[userId |-> id, userRole |-> role, action |-> action, data |-> data] :
            id \in KnownIds(role), data \in BulkData(action)} :
         <<role, action>> \in roles \X BulkActions}

BulkInputsOf(roles, n) == UNION {[1..k -> BulkItemsOf(roles)] : k \in 1..n}

\* POST /bulk-operations: the validation of the controller passes, and the
\* service starts with empty lists and the total of the summary
PerformBulkOperations(r, operations) ==
  /\ Free(r)
  /\ req' = [req EXCEPT ![r] =
       [AdminRequest("bulk", NULL, "NONE") EXCEPT
          !.pc = "bulk", !.todo = operations, !.input = operations,
          !.summary = [total |-> Len(operations), succeeded |-> 0, failed |-> 0]]]
  /\ UNCHANGED <<superAdmin, admin, trainer, customer, subscription, payment, nextId, scanDesc,
                 profile, refreshToken>>

\* the switch of performBulkUserOperations on the action of an item
BulkResult(item) ==
  CASE item.action = "SUSPEND" -> SuspendUserResult(item.userRole, item.userId)
    [] item.action = "ACTIVATE" -> ActivateUserResult(item.userRole, item.userId)
    [] item.action = "UPDATE" ->
         UpdateUserResult(item.userRole, item.userId, NULL, item.data.status)
    [] item.action = "RESET_PASSWORD" ->
         IF item.data.newPassword = NULL
         THEN [err |-> "Error", profile |-> profile,
               msg |-> <<"New", "password", "is", "required", "for", "password", "reset">>]
         ELSE ResetUserPasswordResult(item.userRole, item.userId, item.data.newPassword)
    [] OTHER -> [err |-> "Error", profile |-> profile,
                 msg |-> <<"Invalid", "bulk", "operation", "action">>]

\* a loop that stops at the first item that fails
BulkRestAbort(todo, err) == IF err = "NONE" THEN Tail(todo) ELSE <<>>

\* the items left for the later turns of the loop
BulkRest(todo, err) == Tail(todo)

\* performBulkUserOperations: one turn of the loop; a success is listed and
\* counted, a failure is caught, listed with its message and counted, and
\* the request answers after the last item
BulkStep(r) ==
  /\ req[r].op = "bulk"
  /\ req[r].pc = "bulk"
  /\ LET item == Head(req[r].todo)
         out == BulkResult(item)
         entry == [userId |-> item.userId, userRole |-> item.userRole, action |-> item.action]
         successful == IF out.err = "NONE" THEN Append(req[r].successful, entry)
                       ELSE req[r].successful
         failed == IF out.err = "NONE" THEN req[r].failed
                   ELSE Append(req[r].failed, [userId |-> item.userId, userRole |-> item.userRole,
                                                action |-> item.action, error |-> out.msg])
         summary == IF out.err = "NONE"
                    THEN [req[r].summary EXCEPT !.succeeded = @ + 1]
                    ELSE [req[r].summary EXCEPT !.failed = @ + 1]
         rest == BulkRest(req[r].todo, out.err)
         after == [req[r] EXCEPT !.todo = rest, !.failed = failed, !.successful = successful,
                                 !.summary = summary]
     IN /\ profile' = out.profile
        /\ req' = [req EXCEPT ![r] =
             IF rest = <<>> THEN Finish(after, "NONE", "BULK_COMPLETED") ELSE after]
  /\ UNCHANGED <<superAdmin, admin, trainer, customer, subscription, payment, nextId, scanDesc,
                 refreshToken>>

\* ------------------------------------------------- account administration
AdminOf(role) ==
  CASE role = "SUPER_ADMIN" -> AdminSuperAdmins
    [] role = "ADMIN" -> AdminAdmins
    [] role = "TRAINER" -> AdminTrainers
    [] OTHER -> AdminCustomers

NextAdmin ==
  \/ \E role \in Roles : \E parent \in ParentIds(role) \cup {NULL} :
       nextId[role] < AdminOf(role) /\ Register(role, parent)
  \/ \E r \in Reqs, role \in Roles : \E id \in KnownIds(role) : SuspendUser(r, id, role)
  \/ \E r \in Reqs, role \in Roles : \E id \in KnownIds(role) : ActivateUser(r, id, role)
  \/ \E r \in Reqs, role \in Roles : \E id \in KnownIds(role), password \in Passwords :
       ResetUserPassword(r, id, role, password)
  \/ \E r \in Reqs, role \in Roles : \E id \in KnownIds(role) : ImpersonateUser(r, id, role)
  \/ \E r \in Reqs, role \in {"ADMIN", "TRAINER"} : \E id \in KnownIds(role) :
       UpdateUser(r, id, role, NULL, "SUSPENDED")
  \/ \E r \in Reqs : \E id \in KnownIds("SUPER_ADMIN") : DeleteUser(r, id, "SUPER_ADMIN")
  \/ \E r \in Reqs : DeleteSuperAdmin(r)
  \/ \E role \in {"ADMIN", "TRAINER"} : \E id \in Ids(Table(role)) :
       nextId["SUB"] < AdminSubs /\ CreateSubscription(id, role, "FREE")

SpecAdmin == Init /\ [][NextAdmin]_vars

\* ------------------------------------- suspend and activate, single and bulk
NextBulk ==
  \/ \E role \in {"TRAINER", "CUSTOMER"} : \E parent \in ParentIds(role) \cup {NULL} :
       nextId[role] < AdminOf(role) /\ Register(role, parent)
  \/ \E r \in Reqs, role \in Roles : \E id \in KnownIds(role) : SuspendUser(r, id, role)
  \/ \E r \in Reqs, role \in Roles : \E id \in KnownIds(role) : ActivateUser(r, id, role)
  \/ \E r \in Reqs : \E operations \in BulkInputs(MaxBulk) : PerformBulkOperations(r, operations)
  \/ \E r \in Reqs : BulkStep(r)

SpecBulk == Init /\ [][NextBulk]_vars

\* ------------------------------- the status of accounts, single and bulk
\* getAllUsers: the status listed for an account; the kinds without the
\* column are listed ACTIVE
ListedStatus(role, id) ==
  IF role \in {"SUPER_ADMIN", "CUSTOMER"} THEN "ACTIVE" ELSE profile[id].status

NextStatus ==
  \/ \E role \in {"TRAINER", "CUSTOMER"} : \E parent \in ParentIds(role) \cup {NULL} :
       nextId[role] < AdminOf(role) /\ Register(role, parent)
  \/ \E r \in Reqs, role \in Roles : \E id \in KnownIds(role) : SuspendUser(r, id, role)
  \/ \E r \in Reqs, role \in Roles : \E id \in KnownIds(role) : ActivateUser(r, id, role)
  \/ \E r \in Reqs, role \in Roles : \E id \in KnownIds(role), status \in StatusPayloads :
       UpdateUser(r, id, role, NULL, status)
  \/ \E r \in Reqs : \E operations \in BulkInputsOf({"SUPER_ADMIN", "TRAINER", "CUSTOMER"}, MaxBulk) :
       (\A q \in Reqs : req[q].op # "bulk") /\ PerformBulkOperations(r, operations)
  \/ \E r \in Reqs : BulkStep(r)

SpecStatus == Init /\ [][NextStatus]_vars

\* ------------------------------------------------------ sign up with a plan
SignupOf(role) == IF role = "ADMIN" THEN SignupAdmins ELSE SignupTrainers

NextSignup ==
  \/ \E role \in {"ADMIN", "TRAINER"} : nextId[role] < SignupOf(role) /\ Register(role, NULL)
  \/ \E r \in Reqs, role \in {"ADMIN", "TRAINER"} : \E id \in Ids(Table(role)), planId \in PlanIds :
       nextId["SUB"] < SignupSubs /\ CreateSubscriptionCall(r, id, role, planId)
  \/ \E r \in Reqs, role \in {"ADMIN", "TRAINER"}, plan \in {"FREE", "BASIC"} :
       nextId[role] < SignupOf(role) /\ RegisterWithPlan(r, role, plan)
  \/ \E r \in Reqs : nextId["SUB"] < SignupSubs /\ RegisterWithPlanSubscribe(r)
  \/ \E r \in Reqs : RegisterWithPlanCheckout(r)
  \/ \E r \in Reqs : RegisterWithPlanFail(r)

SpecSignup == Init /\ [][NextSignup]_vars

\* ------------------------------------- the capacity check for every kind
KindOf(role) ==
  CASE role = "ADMIN" -> KindAdmins
    [] role = "TRAINER" -> KindTrainers
    [] OTHER -> KindCustomers

NextKind ==
  \/ \E role \in {"ADMIN", "TRAINER", "CUSTOMER"} : \E parent \in ParentIds(role) \cup {NULL} :
       nextId[role] < KindOf(role) /\ Register(role, parent)
  \/ \E role \in {"ADMIN", "TRAINER", "CUSTOMER"} : \E id \in Ids(Table(role)) :
       \E plan \in PlansFor(role) :
         nextId["SUB"] < KindSubs /\ CreateSubscription(id, role, plan)
  \/ \E r \in Reqs, role \in {"ADMIN", "TRAINER", "CUSTOMER"} : \E id \in Ids(Table(role)) :
       CheckCanAddCustomer(r, id, role)

SpecKind == Init /\ [][NextKind]_vars

\* ------------------------------------- the two revisions of the cascade
NextCascade ==
  \/ \E role \in {"ADMIN", "TRAINER", "CUSTOMER"} : \E parent \in ParentIds(role) \cup {NULL} :
       nextId[role] < MaxOf(role) /\ Register(role, parent)
  \/ \E role \in {"ADMIN", "TRAINER", "CUSTOMER"} : \E id \in Ids(Table(role)) : \E plan \in PlansFor(role) :
       nextId["SUB"] < MaxSubs /\ CreateSubscription(id, role, plan)
  \/ \E r \in Reqs, role \in Roles : \E id \in KnownIds(role) : DeleteUser(r, id, role)
  \/ \E r \in Reqs, role \in Roles : \E id \in KnownIds(role) : DeleteUserLater(r, id, role)
  \/ \E r \in Reqs : TxDeletePayments(r)
  \/ \E r \in Reqs : TxDeleteSubscriptions(r)
  \/ \E r \in Reqs : TxDeleteAccount(r)
  \/ \E r \in Reqs : TxFail(r)
  \/ \E r \in Reqs : DeleteSuperAdmin(r)
  \/ \E r \in Reqs : \E h \in Handles : HandlePaymentSucceeded(r, h, PaymentHandleOf(h, 1))
  \/ \E r \in Reqs : PaymentFindByMetadata(r)
  \/ \E r \in Reqs : PaymentAttachHandle(r)
  \/ \E r \in Reqs : PaymentFindExisting(r)
  \/ \E r \in Reqs : nextId["PAY"] < MaxPays /\ PaymentCreate(r)

SpecCascade == Init /\ [][NextCascade]_vars

\* ------------------------------------------- the webhooks of a first payment
NextCheckout ==
  \/ nextId["TRAINER"] < LedgerTrainers /\ Register("TRAINER", NULL)
  \/ \E id \in Ids(trainer) : \E plan \in PlansFor("TRAINER") :
       nextId["SUB"] < LedgerSubs /\ CreateSubscription(id, "TRAINER", plan)
  \/ \E r \in Reqs : \E h \in Handles :
       nextId["PAY"] < LedgerPays /\ HandleCheckoutCompleted(r, h)
  \/ \E r \in Reqs : \E h \in Handles : HandlePaymentSucceeded(r, h, PaymentHandleOf(h, 1))
  \/ \E r \in Reqs : PaymentFindByMetadata(r)
  \/ \E r \in Reqs : PaymentAttachHandle(r)
  \/ \E r \in Reqs : PaymentFindExisting(r)
  \/ \E r \in Reqs : nextId["PAY"] < LedgerPays /\ PaymentCreate(r)

SpecCheckout == Init /\ [][NextCheckout]_vars

\* ---------------------------------------------------------------- sessions
\* the account authService.findUserByEmail returns
UserOfEmail(email) ==
  CHOOSE id \in DOMAIN profile : id \in HoldersIn(FindUserByEmail(email), email)

\* authService.login: the error thrown, or none
LoginError(email, password) ==
  IF FindUserByEmail(email) = "NONE" THEN "INVALID_CREDENTIALS"
  ELSE IF profile[UserOfEmail(email)].status \notin {"NONE", "ACTIVE"} THEN "ACCOUNT_INACTIVE"
  ELSE IF profile[UserOfEmail(email)].password # password THEN "INVALID_CREDENTIALS"
  ELSE "NONE"

\* POST /login: on success a token pair is generated and the refresh token
\* stored
Login(r, email, password) ==
  /\ Free(r)
  /\ LET err == LoginError(email, password)
         call == [Idle EXCEPT !.op = "login", !.email = email]
     IN IF err # "NONE"
        THEN /\ req' = [req EXCEPT ![r] = Finish(call, err, "LOGIN_FAILED")]
             /\ UNCHANGED refreshToken
        ELSE /\ InsertToken(UserOfEmail(email), FindUserByEmail(email))
             /\ req' = [req EXCEPT ![r] =
                  Finish([call EXCEPT !.id = UserOfEmail(email),
                                      !.role = FindUserByEmail(email)], "NONE", "TOKENS_ISSUED")]
  /\ UNCHANGED <<superAdmin, admin, trainer, customer, subscription, payment, nextId, scanDesc,
                 profile>>

\* the refresh tokens a client may present: the stored ones and the ones a
\* refresh has replaced
PresentableTokens ==
  refreshToken \cup
    UNION {{[t EXCEPT !.gen = g] : g \in 0..(t.gen - 1)} : t \in refreshToken}

\* authService.refreshAccessToken: the error thrown, or none; a stored token
\* may have passed its expiry
RefreshError(token, expired) ==
  IF token \notin refreshToken THEN "INVALID_TOKEN"
  ELSE IF expired THEN "TOKEN_EXPIRED"
  ELSE IF ~Exists(token.userRole, token.userId) THEN "USER_NOT_FOUND"
  ELSE "NONE"

\* POST /refresh: the expired token is deleted; on success a new token pair
\* is generated and the stored refresh token replaced by the new one
RefreshAccessToken(r, token, expired) ==
  /\ Free(r)
  /\ LET err == RefreshError(token, expired)
         call == [Idle EXCEPT !.op = "refreshAccessToken", !.id = token.userId,
                              !.role = token.userRole]
     IN /\ refreshToken' =
             CASE err = "TOKEN_EXPIRED" -> refreshToken \ {token}
               [] err = "NONE" -> (refreshToken \ {token}) \cup {[token EXCEPT !.gen = @ + 1]}
               [] OTHER -> refreshToken
        /\ req' = [req EXCEPT ![r] =
             Finish(call, err, IF err = "NONE" THEN "TOKENS_ISSUED" ELSE "REFRESH_FAILED")]
  /\ UNCHANGED <<superAdmin, admin, trainer, customer, subscription, payment, nextId, scanDesc,
                 profile>>

SessionOf(role) == IF role = "ADMIN" THEN SessionAdmins ELSE SessionTrainers

NextSession ==
  \/ \E role \in {"ADMIN", "TRAINER"} : nextId[role] < SessionOf(role) /\ Register(role, NULL)
  \/ \E r \in Reqs, role \in {"ADMIN", "TRAINER"} : \E id \in KnownIds(role) :
       SuspendUser(r, id, role)
  \/ \E r \in Reqs, role \in {"ADMIN", "TRAINER"} : \E id \in KnownIds(role) :
       ActivateUser(r, id, role)
  \/ \E r \in Reqs : \E email \in HeldEmails \cup Emails, password \in Passwords \cup {NULL} :
       Login(r, email, password)
  \/ \E r \in Reqs : \E token \in PresentableTokens, expired \in BOOLEAN :
       (\A t \in refreshToken : t.gen < MaxRefresh) /\ RefreshAccessToken(r, token, expired)

SpecSession == Init /\ [][NextSession]_vars

\* ----------------------------------------------------------------- refunds
\* Math.floor(payment.amount / 2), the amount column being cents / 100
HalfFloor(amount) == ((amount \div 100) \div 2) * 100

\* the payments a refund request may name: with a paymentId the payment of
\* that id under the subscription, else its COMPLETED payments
EligiblePayments(subId, paymentId) ==
  IF paymentId # NULL
  THEN {p \in payment : p.subscriptionId = subId /\ p.id = paymentId}
  ELSE {p \in payment : p.subscriptionId = subId /\ p.status = "COMPLETED"}

\* payments: { orderBy: { createdAt: 'desc' }, take: 1 }
NewestPayment(pays) == CHOOSE p \in pays : \A q \in pays : q.id <= p.id

\* the amount to refund: the one requested, else the whole payment for
\* refundType 'full', else half of it
RefundAmount(pay, amount, refundType) ==
  IF amount # NULL THEN amount
  ELSE IF refundType = "full" THEN pay.amount
  ELSE HalfFloor(pay.amount)

\* refundAmount > payment.amount
ExceedsPayment(refundAmount, pay) == refundAmount > pay.amount

\* processSubscriptionRefund up to the call of the payment processor: the
\* message of the error thrown, or none
RefundMessage(subId, paymentId, amount, refundType) ==
  IF subId \notin Ids(subscription) THEN <<"Subscription", "not", "found">>
  ELSE IF EligiblePayments(subId, paymentId) = {}
  THEN <<"No", "eligible", "payments", "found", "for", "refund">>
  ELSE IF NewestPayment(EligiblePayments(subId, paymentId)).stripePaymentId = NULL
  THEN <<"No", "Stripe", "payment", "ID", "found", "for", "refund">>
  ELSE IF ExceedsPayment(RefundAmount(NewestPayment(EligiblePayments(subId, paymentId)),
                                      amount, refundType),
                         NewestPayment(EligiblePayments(subId, paymentId)))
  THEN <<"Refund", "amount", "cannot", "exceed", "payment", "amount">>
  ELSE <<>>

\* superAdminController.processSubscriptionRefund: the response to an error
RefundResponse(msg) ==
  IF Includes(msg, <<"not", "found">>) THEN "SUBSCRIPTION_OR_PAYMENT_NOT_FOUND"
  ELSE IF Includes(msg, <<"Stripe">>) THEN "STRIPE_REFUND_ERROR"
  ELSE IF Includes(msg, <<"exceed">>) THEN "INVALID_REFUND_AMOUNT"
  ELSE "REFUND_PROCESSING_ERROR"

\* POST /subscriptions/:id/refund: the reason is required; the payment is
\* selected and the amount checked, then the payment processor is called
ProcessSubscriptionRefund(r, subId, paymentId, amount, refundType, hasReason) ==
  /\ Free(r)
  /\ LET call == [AdminRequest("processSubscriptionRefund", NULL, "NONE") EXCEPT !.sub = subId]
         msg == RefundMessage(subId, paymentId, amount, refundType)
         pay == NewestPayment(EligiblePayments(subId, paymentId))
     IN req' = [req EXCEPT ![r] =
          IF ~hasReason THEN Finish(call, "Error", "MISSING_REASON")
          ELSE IF msg # <<>> THEN [Finish(call, "Error", RefundResponse(msg)) EXCEPT !.msg = msg]
          ELSE [call EXCEPT !.pc = "refund", !.paymentId = pay.id,
                            !.amount = RefundAmount(pay, amount, refundType)]]
  /\ UNCHANGED <<superAdmin, admin, trainer, customer, subscription, payment, nextId, scanDesc,
                 profile, refreshToken>>

\* the payment row after the refund is recorded
RefundedPayment(pay, refundAmount) ==
  [pay EXCEPT !.status = IF refundAmount = pay.amount THEN "REFUNDED"
                         ELSE "PARTIALLY_REFUNDED"]

\* stripe.refunds.create answers: a refusal is rethrown as 'Stripe refund
\* failed', an accepted refund is recorded on the payment row
RefundAtProcessor(r, accepted) ==
  /\ req[r].op = "processSubscriptionRefund"
  /\ req[r].pc = "refund"
  /\ IF ~accepted
     THEN /\ req' = [req EXCEPT ![r] =
               [Finish(@, "Error", RefundResponse(<<"Stripe", "refund", "failed">>))
                  EXCEPT !.msg = <<"Stripe", "refund", "failed">>]]
          /\ UNCHANGED payment
     ELSE IF req[r].paymentId \notin Ids(payment)
     THEN /\ req' = [req EXCEPT ![r] = Finish(@, "P2025", RefundResponse(NotFoundMessage))]
          /\ UNCHANGED payment
     ELSE /\ payment' = {IF p.id = req[r].paymentId THEN RefundedPayment(p, req[r].amount)
                          ELSE p : p \in payment}
          /\ req' = [req EXCEPT ![r] = Finish(@, "NONE", "REFUND_PROCESSED")]
  /\ UNCHANGED <<superAdmin, admin, trainer, customer, subscription, nextId, scanDesc,
                 profile, refreshToken>>

\* the webhook has answered ({ received: true }): its request is over
WebhookAnswered(r) ==
  /\ req[r].op = "handleCheckoutCompleted"
  /\ req[r].pc = "done"
  /\ req' = [req EXCEPT ![r] = Idle]
  /\ UNCHANGED <<superAdmin, admin, trainer, customer, subscription, payment, nextId, scanDesc,
                 profile, refreshToken>>

\* the amounts a refund request may ask for: none, part of the BASIC price,
\* the price, more than the price
RefundAmounts == {NULL, 3000, PlanPriceCents("BASIC"), PlanPriceCents("BASIC") + 1}

NextRefund ==
  \/ nextId["TRAINER"] < LedgerTrainers /\ Register("TRAINER", NULL)
  \/ \E id \in Ids(trainer) : \E plan \in PlansFor("TRAINER") :
       nextId["SUB"] < RefundSubs /\ CreateSubscription(id, "TRAINER", plan)
  \/ \E r \in Reqs : \E h \in Handles :
       nextId["PAY"] < RefundPays /\ HandleCheckoutCompleted(r, h)
  \/ \E r \in Reqs : WebhookAnswered(r)
  \/ \E r \in Reqs : \E subId \in 1..nextId["SUB"] : \E paymentId \in Ids(payment) \cup {NULL} :
       \E amount \in RefundAmounts, refundType \in {"partial", "full"}, hasReason \in BOOLEAN :
         ProcessSubscriptionRefund(r, subId, paymentId, amount, refundType, hasReason)
  \/ \E r \in Reqs : \E accepted \in BOOLEAN : RefundAtProcessor(r, accepted)

SpecRefund == Init /\ [][NextRefund]_vars

\* ------------------------------------------------------------------ claims
DeleteReqs == {r \in Reqs : req[r].op = "deleteUser"}

\* the children of an account, read off the tables
ChildrenOf(role, id) ==
  CASE role = "SUPER_ADMIN" -> {a \in admin : a.superAdminId = id}
    [] role = "ADMIN" -> {t \in trainer : t.adminId = id}
    [] role = "TRAINER" -> {c \in customer : c.trainerId = id}
    [] OTHER -> {}

\* C1: a deleteUser that arrives while its target has children is rejected
\* with the error naming the dependent kind, and writes nothing.
C1_RejectedWithDependents ==
  [][\A r \in Reqs :
       (req[r].pc = "idle" /\ req'[r].op = "deleteUser"
        /\ ChildrenOf(req'[r].role, req'[r].id) # {})
       => /\ req'[r].pc = "done"
          /\ req'[r].res = "DELETION_RESTRICTED"
          /\ req'[r].dep = (CASE req'[r].role = "SUPER_ADMIN" -> "ADMIN"
                              [] req'[r].role = "ADMIN" -> "TRAINER"
                              [] OTHER -> "CUSTOMER")
          /\ store' = store]_vars

C1_Witness ==
  \E r \in DeleteReqs :
    /\ req[r].res = "DELETION_RESTRICTED"
    /\ req[r].role = "TRAINER"
    /\ ChildrenOf("TRAINER", req[r].id) # {}
    /\ Exists("TRAINER", req[r].id)

\* C2: every payment belongs to an existing subscription and every
\* subscription to an existing account, in every state.
C2_ReferentialIntegrity ==
  /\ \A p \in payment : p.subscriptionId \in Ids(subscription)
  /\ \A s \in subscription : Exists(s.userType, s.userId)

\* C3: a step of deleteUser that does not end in success leaves the store as
\* it was: a cascade that fails at any of its statements removes nothing.
C3_FailedCascadeChangesNothing ==
  [][\A r \in Reqs :
       (req[r].op = "deleteUser" /\ req'[r] # req[r] /\ req'[r].res # "OK")
       => store' = store]_vars

C3_Witness ==
  \E r \in DeleteReqs :
    /\ req[r].err = "Unreachable"
    /\ req[r].delSub # {}
    /\ req[r].delPay # {}
    /\ req[r].delPay \subseteq Ids(payment)
    /\ req[r].delSub \subseteq Ids(subscription)
    /\ Exists(req[r].role, req[r].id)

\* C4: of two deleteUser calls for the same account, neither refused for
\* dependents nor failed by the database and with no third call for that
\* account, exactly one succeeds and the other is answered USER_NOT_FOUND;
\* the account and the rows the cascade took are gone.
C4_ConcurrentDeletes ==
  \A r1, r2 \in DeleteReqs :
    (/\ r1 # r2
     /\ req[r1].pc = "done" /\ req[r2].pc = "done"
     /\ req[r1].id = req[r2].id /\ req[r1].role = req[r2].role
     /\ req[r1].err \in {"NONE", "P2025"} /\ req[r2].err \in {"NONE", "P2025"}
     /\ \A r3 \in DeleteReqs \ {r1, r2} : req[r3].id # req[r1].id)
    => /\ {req[r1].res, req[r2].res} = {"OK", "USER_NOT_FOUND"}
       /\ ~Exists(req[r1].role, req[r1].id)
       /\ \A r \in {r1, r2} : req[r].res = "OK" =>
            /\ req[r].delSub \cap Ids(subscription) = {}
            /\ req[r].delPay \cap Ids(payment) = {}

C4_Witness ==
  \E r1, r2 \in DeleteReqs :
    /\ r1 # r2
    /\ req[r1].id = req[r2].id /\ req[r1].role = req[r2].role
    /\ req[r1].res = "OK" /\ req[r1].delSub # {}
    /\ req[r2].res = "USER_NOT_FOUND" /\ req[r2].delSub = req[r1].delSub

\* C5: no deletion commits while a child is attached: a child that survives
\* a step keeps the parent reference it had.
C5_ParentNeverCleared ==
  [][/\ \A t \in trainer : \A u \in trainer' :
          (u.id = t.id /\ t.adminId # NULL) => u.adminId = t.adminId
     /\ \A c \in customer : \A d \in customer' :
          (d.id = c.id /\ c.trainerId # NULL) => d.trainerId = c.trainerId
     /\ \A a \in admin : \A b \in admin' :
          (b.id = a.id /\ a.superAdminId # NULL) => b.superAdminId = a.superAdminId]_vars

ActivateReqs == {r \in Reqs : req[r].op = "activateSubscription" /\ req[r].pc = "done"}
PaymentReqs == {r \in Reqs : req[r].op = "handlePaymentSucceeded" /\ req[r].pc = "done"}
CarryingHandle(subs, h) == {s \in subs : s.stripeSubscriptionId = h}
WithPaymentHandle(pays, pid) == {p \in pays : p.stripePaymentId = pid}

\* C6: activateSubscription called twice in a row with the same handle: the
\* second call ends as the first (no error), leaves the store as the first
\* left it, and exactly one row, ACTIVE, carries the handle.
C6_ActivationIdempotent ==
  \A h \in Handles :
    LET first == ActivateRun(subscription, h)
        second == ActivateRun(first.subs, h)
    IN /\ first.res # "ERROR"
       /\ second.res = first.res
       /\ second.subs = first.subs
       /\ first.res = "ACTIVATED" =>
            /\ Cardinality(CarryingHandle(second.subs, h)) = 1
            /\ \A s \in CarryingHandle(second.subs, h) : s.status = "ACTIVE"

C6_Witness ==
  \E r1, r2 \in ActivateReqs :
    /\ req[r1].h = req[r2].h
    /\ req[r1].via = "metadata" /\ req[r1].res = "ACTIVATED"
    /\ req[r2].via = "handle" /\ req[r2].res = "ACTIVATED"
    /\ req[r1].sub = req[r2].sub
    /\ Cardinality(CarryingHandle(subscription, req[r1].h)) = 1
    /\ \E s \in subscription : s.userId = MetaUser(req[r1].h) /\ s.status = "INACTIVE"

\* C7: two activateSubscription calls for one handle both end without error,
\* at most one row carries the handle and at most one row was activated.
C7_ConcurrentActivations ==
  \A r1, r2 \in ActivateReqs :
    (r1 # r2 /\ req[r1].h = req[r2].h)
    => /\ req[r1].res # "ERROR" /\ req[r2].res # "ERROR"
       /\ Cardinality(CarryingHandle(subscription, req[r1].h)) <= 1
       /\ Cardinality({req[r].sub : r \in {q \in {r1, r2} : req[q].res = "ACTIVATED"}}) <= 1

\* C8: the same invoice.payment_succeeded handled again and again, one
\* delivery after the other: the repeats record nothing, change nothing, and
\* one payment row carries the payment handle.
C8_PaymentRedelivery ==
  \A h \in Handles :
    LET pid == PaymentHandleOf(h, 1)
        first == PaymentSucceededRun(subscription, payment, nextId["PAY"] + 1, h, pid)
        second == PaymentSucceededRun(first.subs, first.pays, nextId["PAY"] + 2, h, pid)
        third == PaymentSucceededRun(second.subs, second.pays, nextId["PAY"] + 3, h, pid)
    IN /\ first.res # "LOGGED"
       /\ second.res \notin {"RECORDED", "LOGGED"} /\ third.res = second.res
       /\ second.pays = first.pays /\ third.pays = first.pays
       /\ second.subs = first.subs /\ third.subs = first.subs
       /\ first.res = "RECORDED" =>
            /\ second.res = "ALREADY_RECORDED"
            /\ Cardinality(WithPaymentHandle(third.pays, pid)) = 1

C8_Witness ==
  \E r1, r2 \in PaymentReqs :
    /\ req[r1].h = req[r2].h /\ req[r1].pid = req[r2].pid
    /\ req[r1].res = "RECORDED"
    /\ req[r2].res = "ALREADY_RECORDED"
    /\ Cardinality(WithPaymentHandle(payment, req[r1].pid)) = 1

\* C9: two handlers of the same invoice.payment_succeeded, however their
\* steps interleave, leave exactly one payment row with the payment handle.
C9_ConcurrentPaymentRecordedOnce ==
  \A r1, r2 \in PaymentReqs :
    (/\ r1 # r2
     /\ req[r1].h = req[r2].h /\ req[r1].pid = req[r2].pid
     /\ "RECORDED" \in {req[r1].res, req[r2].res})
    => Cardinality(WithPaymentHandle(payment, req[r1].pid)) = 1

\* the subscription of an account created last, and the customers it manages
CurrentSubscription(userId, userType) ==
  {s \in subscription :
     /\ s.userId = userId /\ s.userType = userType
     /\ \A t \in subscription : (t.userId = userId /\ t.userType = userType) => t.id <= s.id}
Managed(userId, userType) ==
  IF userType = "TRAINER" THEN {c \in customer : c.trainerId = userId}
  ELSE {c \in customer : \E t \in trainer : t.adminId = userId /\ c.trainerId = t.id}

\* C10: for a TRAINER or ADMIN whose current subscription is ACTIVE on a plan
\* with maxCustomers = m, canAddCustomer answers allowed iff current < m,
\* with the actual count, m, and m - current.
C10_CapacityAnswer ==
  \A role \in {"TRAINER", "ADMIN"} : \A id \in Ids(Table(role)) :
    \A s \in CurrentSubscription(id, role) :
      (s.status = "ACTIVE" /\ PlanMaxCustomers(s.plan) # NULL)
      => LET m == PlanMaxCustomers(s.plan)
             n == Cardinality(Managed(id, role))
         IN /\ CanAddCustomer(id, role) =
                 [canAdd |-> n < m, currentCustomers |-> n, maxCustomers |-> m, remaining |-> m - n]
            /\ \A r \in Reqs :
                 (req[r].op = "canAddCustomer" /\ req[r].id = id /\ req[r].role = role
                  /\ req[r].cap.currentCustomers = n
                  /\ req[r].cap.maxCustomers = m)
                 => req[r].cap.canAdd = (n < m) /\ req[r].cap.remaining = m - n

C10_Witness ==
  \E r1, r2 \in Reqs :
    /\ req[r1].op = "canAddCustomer" /\ req[r2].op = "canAddCustomer"
    /\ req[r1].role = "TRAINER" /\ req[r1].id = req[r2].id /\ req[r2].role = "TRAINER"
    /\ req[r1].cap = [canAdd |-> TRUE, currentCustomers |-> 1, maxCustomers |-> FreeMax, remaining |-> 1]
    /\ req[r2].cap = [canAdd |-> FALSE, currentCustomers |-> 2, maxCustomers |-> FreeMax, remaining |-> 0]
    /\ Cardinality(Managed(req[r2].id, "TRAINER")) = 2

\* C11: the capacity check comes before a Customer is attached: while a
\* Trainer's current subscription is ACTIVE and canAddCustomer refuses, no
\* step attaches a further Customer to that Trainer.
C11_RefusedMeansNotAttached ==
  [][\A t \in Ids(trainer) :
       \A s \in CurrentSubscription(t, "TRAINER") :
         (s.status = "ACTIVE" /\ ~CanAddCustomer(t, "TRAINER").canAdd)
         => {c \in customer' : c.trainerId = t} \subseteq {c \in customer : c.trainerId = t}]_vars

\* C12: a plan whose maxCustomers is null is unlimited: a Trainer or Admin
\* whose current subscription is ACTIVE on such a plan is allowed one more
\* customer at every customer count.
C12_NullMeansUnlimited ==
  \A role \in {"TRAINER", "ADMIN"} : \A id \in Ids(Table(role)) :
    \A s \in CurrentSubscription(id, role) :
      (s.status = "ACTIVE" /\ PlanMaxCustomers(s.plan) = NULL) => CanAddCustomer(id, role).canAdd

\* the hierarchy table of the account kinds
CanCreate(actor, target) ==
  \/ actor = "SUPER_ADMIN"
  \/ actor = "ADMIN" /\ target = "TRAINER"
  \/ actor = "TRAINER" /\ target = "CUSTOMER"
RegisterReqs == {r \in Reqs : req[r].op = "register"}

\* C13: a creation request of an authenticated actor is admitted iff
\* canCreate(actor, target) holds; every other pair is answered
\* INSUFFICIENT_PERMISSIONS.
C13_AdmittedIffCanCreate ==
  \A r \in RegisterReqs :
    req[r].actor \in Roles
    => (req[r].res = "INSUFFICIENT_PERMISSIONS" <=> ~CanCreate(req[r].actor, req[r].role))

\* C14: the set of SUPER_ADMIN accounts grows only in the step of a
\* registration whose authenticated actor is a SUPER_ADMIN.
C14_OnlySuperAdminCreatesSuperAdmin ==
  [][~(superAdmin' \subseteq superAdmin)
     => \E r \in Reqs : /\ req[r].op = "register" /\ req[r].pc = "create"
                        /\ req'[r].pc = "token" /\ req[r].actor = "SUPER_ADMIN"]_vars

\* rank of the four known roles
Rank(role) ==
  CASE role = "CUSTOMER" -> 0
    [] role = "TRAINER" -> 1
    [] role = "ADMIN" -> 2
    [] OTHER -> 3
GuardReqs == {r \in Reqs : req[r].op = "authorizeHierarchy"}

\* C15: authorizeHierarchy(minimumRole) admits an authenticated request iff
\* both role tags are known and rank(actor) >= rank(minimumRole).
C15_HierarchyGuard ==
  \A r \in GuardReqs :
    req[r].res = "ADMITTED"
    <=> /\ req[r].actor \in Roles /\ req[r].role \in Roles
        /\ Rank(req[r].actor) >= Rank(req[r].role)

\* C19: a registration that passes the role check with an email some account
\* of any kind already holds is answered with the duplicate-email outcome at
\* once and writes nothing.
C19_DuplicateEmailRejected ==
  [][\A r \in Reqs :
       (/\ req[r].pc = "idle" /\ req'[r].op = "register"
        /\ req'[r].email \in HeldEmails
        /\ req'[r].res # "INSUFFICIENT_PERMISSIONS")
       => /\ req'[r].pc = "done" /\ req'[r].res = "USER_EXISTS"
          /\ UNCHANGED <<store, nextId>>]_vars

C19_Witness ==
  \E r \in RegisterReqs :
    /\ req[r].res = "USER_EXISTS"
    /\ FindUserByEmail(req[r].email) \notin {"NONE", req[r].role}
    /\ \A t \in refreshToken : t.userRole # req[r].role

\* C20: no two accounts, of the same or of different kinds, hold the same
\* email.
C20_EmailGloballyUnique ==
  \A i, j \in DOMAIN profile : i # j => profile[i].email # profile[j].email

Unsupported == {"SUPER_ADMIN", "CUSTOMER"}

\* C16: suspend and activate on a SUPER_ADMIN or CUSTOMER target are answered
\* with the not-allowed outcome of the operation and change no account, as a
\* single request and as an item of a bulk request.
C16_UnsupportedIsNotAllowed ==
  [][\A r \in Reqs :
       /\ (req[r].pc = "idle" /\ req'[r].op = "suspendUser" /\ req'[r].role \in Unsupported)
          => (req'[r].res = "SUSPENSION_NOT_ALLOWED" /\ profile' = profile)
       /\ (req[r].pc = "idle" /\ req'[r].op = "activateUser" /\ req'[r].role \in Unsupported)
          => (req'[r].res = "ACTIVATION_NOT_ALLOWED" /\ profile' = profile)
       /\ (req[r].pc = "bulk" /\ req'[r] # req[r] /\ Head(req[r].todo).userRole \in Unsupported)
          => (Len(req'[r].failed) = Len(req[r].failed) + 1 /\ profile' = profile)]_vars

StatusOps == {"suspendUser", "activateUser"}
StatusAfter(op) == IF op = "suspendUser" THEN "INACTIVE" ELSE "ACTIVE"

\* C17: on an existing ADMIN or TRAINER, suspend leaves the status INACTIVE and
\* activate leaves it ACTIVE whatever it was, and the step changes nothing
\* else: no other account, no subscription, no payment.
C17_SuspendActivate ==
  [][\A r \in Reqs :
       (/\ req[r].pc = "idle" /\ req'[r].op \in StatusOps
        /\ req'[r].role \in {"ADMIN", "TRAINER"} /\ Exists(req'[r].role, req'[r].id))
       => /\ profile' = [profile EXCEPT ![req'[r].id].status = StatusAfter(req'[r].op)]
          /\ req'[r].err = "NONE"
          /\ UNCHANGED <<superAdmin, admin, trainer, customer, subscription, payment,
                         refreshToken>>]_vars

C17_Witness ==
  \E id \in Ids(admin) \cup Ids(trainer) :
    /\ req[1].op = "suspendUser" /\ req[1].id = id /\ req[1].res = "SUSPENDED"
    /\ req[2].op = "activateUser" /\ req[2].id = id /\ req[2].res = "ACTIVATED"
    /\ profile[id].status = "ACTIVE"
    /\ \E s \in subscription : s.userId = id

PeerOps == {"suspendUser", "activateUser", "deleteUser", "resetUserPassword", "impersonateUser"}

\* C18: suspend, activate, delete, reset-password and impersonate issued by
\* the root SuperAdmin against another SuperAdmin neither change nor remove the
\* target account, and yield no session for it.
C18_NoPeerAdministration ==
  [][\A r \in Reqs :
       (/\ req'[r] # req[r] /\ req'[r].op \in PeerOps
        /\ req'[r].role = "SUPER_ADMIN" /\ req'[r].id # RootId /\ req'[r].id \in superAdmin)
       => /\ req'[r].id \in superAdmin'
          /\ profile'[req'[r].id] = profile[req'[r].id]
          /\ req'[r].res # "IMPERSONATING"]_vars

\* C21: in every reachable state a SuperAdmin and a Customer carry no status
\* of their own and are listed ACTIVE, whatever updateUser (with any status
\* in the payload), suspend, activate and bulk operations ran before, and the
\* status of every Admin and Trainer is one of ACTIVE, INACTIVE, SUSPENDED.
C21_StatusDomain ==
  /\ \A id \in superAdmin :
       profile[id].status = "NONE" /\ ListedStatus("SUPER_ADMIN", id) = "ACTIVE"
  /\ \A id \in Ids(customer) :
       profile[id].status = "NONE" /\ ListedStatus("CUSTOMER", id) = "ACTIVE"
  /\ \A role \in {"ADMIN", "TRAINER"} : \A id \in Ids(Table(role)) :
       ListedStatus(role, id) \in StatusEnum

\* a bulk request finished after an UPDATE with a status succeeded on a
\* Customer, while a Trainer is not ACTIVE
C21_Witness ==
  \E r \in Reqs :
    /\ req[r].op = "bulk" /\ req[r].pc = "done"
    /\ \E i \in DOMAIN req[r].input :
         /\ req[r].input[i].action = "UPDATE"
         /\ req[r].input[i].userRole = "CUSTOMER"
         /\ req[r].input[i].data.status = "suspended"
         /\ \E j \in DOMAIN req[r].successful :
              /\ req[r].successful[j].action = "UPDATE"
              /\ req[r].successful[j].userId = req[r].input[i].userId
    /\ \E t \in Ids(trainer) : profile[t].status # "ACTIVE"

BulkReqs == {r \in Reqs : req[r].op = "bulk"}

\* what the lists keep of an item
BulkEntry(item) == [userId |-> item.userId, userRole |-> item.userRole, action |-> item.action]

\* the entries of the items of seq at the positions in S, in their order
RECURSIVE EntriesAt(_, _, _)
EntriesAt(seq, S, i) ==
  IF i > Len(seq) THEN <<>>
  ELSE (IF i \in S THEN <<BulkEntry(seq[i])>> ELSE <<>>) \o EntriesAt(seq, S, i + 1)

\* the failed list without its messages
FailedEntries(r) == [i \in DOMAIN req[r].failed |-> BulkEntry(req[r].failed[i])]

\* the number of items of a bulk request the loop has gone through
Applied(r) == Len(req[r].input) - Len(req[r].todo)

\* the lists of a bulk request split the items gone through, in input order
BulkAccounted(r) ==
  /\ req[r].todo = SubSeq(req[r].input, Applied(r) + 1, Len(req[r].input))
  /\ \E S \in SUBSET (1..Applied(r)) :
       /\ req[r].successful = EntriesAt(req[r].input, S, 1)
       /\ FailedEntries(r) = EntriesAt(req[r].input, (1..Applied(r)) \ S, 1)
  /\ req[r].summary.succeeded = Len(req[r].successful)
  /\ req[r].summary.failed = Len(req[r].failed)
  /\ req[r].summary.total = Len(req[r].input)
  /\ req[r].pc = "done" =>
       /\ Applied(r) = Len(req[r].input)
       /\ req[r].summary.succeeded + req[r].summary.failed = req[r].summary.total

\* one turn of the loop of a bulk request: the next item of the input is
\* applied to the accounts as they are now; when it fails nothing is written
\* and the loop goes on with the item after it
BulkTurn(r) ==
  LET item == Head(req[r].todo)
  IN /\ item = req[r].input[Applied(r) + 1]
     /\ profile' = BulkResult(item).profile
     /\ req'[r].todo = Tail(req[r].todo)
     /\ BulkResult(item).err # "NONE" =>
          /\ profile' = profile
          /\ Len(req'[r].failed) = Len(req[r].failed) + 1
          /\ req'[r].successful = req[r].successful
     /\ BulkResult(item).err = "NONE" =>
          /\ Len(req'[r].successful) = Len(req[r].successful) + 1
          /\ req'[r].failed = req[r].failed
     /\ req'[r].pc = IF Tail(req[r].todo) = <<>> THEN "done" ELSE "bulk"

Subscribing(r) ==
  \/ req[r].pc = "idle" /\ req'[r].op = "createSubscription"
  \/ /\ req[r].op = "registerWithPlan" /\ req[r].pc = "createSubscription"
     /\ req'[r].err = "NONE" /\ req'[r].pc # "createSubscription"

SecondsPerDay == 24 * 3600

\* the row createSubscription is to write for a plan
FreshRow(row, userId, userType, plan) ==
  /\ row.userId = userId
  /\ row.userType = userType
  /\ row.plan = plan
  /\ row.stripeSubscriptionId = NULL
  /\ plan = "FREE" => row.status = "ACTIVE" /\ PeriodSeconds(row.period) = 30 * SecondsPerDay
  /\ plan # "FREE" => row.status = "INACTIVE" /\ row.period = "NONE"

\* C23: createSubscription adds exactly one Subscription row for (userId,
\* userType), ACTIVE with a period of 30 days on the FREE plan, INACTIVE with
\* no period on every other plan; with a plan id that does not exist it
\* fails and the table is unchanged.
C23_CreateSubscription ==
  [][\A r \in Reqs : Subscribing(r) =>
       IF FindPlan(req'[r].plan) = "NONE"
       THEN subscription' = subscription /\ req'[r].err # "NONE"
       ELSE /\ req'[r].err = "NONE"
            /\ \E row \in subscription' \ subscription :
                 /\ subscription' = subscription \cup {row}
                 /\ row.id = req'[r].sub
                 /\ FreshRow(row, req'[r].id, req'[r].role, FindPlan(req'[r].plan))]_vars

\* a call of createSubscription has written an INACTIVE row, and another
\* has failed on a plan id that does not exist
C23_Witness ==
  /\ \E r \in Reqs : /\ req[r].op = "createSubscription" /\ req[r].err = "NONE"
                     /\ \E s \in subscription : s.id = req[r].sub /\ s.status = "INACTIVE"
  /\ \E r \in Reqs : req[r].op = "createSubscription" /\ req[r].plan = MissingPlan
                     /\ req[r].err # "NONE"

SignupReqs == {r \in Reqs : req[r].op = "registerWithPlan"}

\* C30: a registerWithPlan that answers with an error because the billing
\* customer, the subscription or the checkout session could not be created
\* leaves no account, no refresh token and no subscription of its own.
C30_SignupAllOrNothing ==
  \A r \in SignupReqs :
    (req[r].pc = "done" /\ req[r].res = "REGISTRATION_ERROR") =>
      /\ ~Exists(req[r].role, req[r].id)
      /\ \A t \in refreshToken : t.userId # req[r].id
      /\ \A s \in subscription : s.userId # req[r].id

\* the rows of the account named by the metadata of a handle
RowsOfHandle(subs, h) == {s \in subs : s.userId = MetaUser(h) /\ s.userType = MetaRole(h)}

\* C24: when no row carries the handle, activateSubscription activates the
\* INACTIVE row of the account of the metadata that was created last, so
\* that, when the newest row of the account was INACTIVE, the current
\* subscription of the account afterwards is the activated row, ACTIVE.
C24_ActivatesNewestInactive ==
  [][\A r \in Reqs :
       (/\ req[r].op = "activateSubscription" /\ req[r].pc = "updateById"
        /\ req'[r].pc = "done" /\ req'[r].err = "NONE")
       => LET rows == RowsOfHandle(subscription, req[r].h)
              inactive == {s \in rows : s.status = "INACTIVE"}
          IN /\ req[r].sub = NewestRow(inactive)
             /\ NewestRow(rows) \in Ids(inactive) =>
                  /\ NewestRow(RowsOfHandle(subscription', req[r].h)) = req[r].sub
                  /\ SubById(subscription', req[r].sub).status = "ACTIVE"]_vars

\* C25: canAddCustomer allows a CUSTOMER whatever subscription it has or
\* lacks, and denies a TRAINER or ADMIN with zero counts when the account has
\* no subscription or the one created last is not ACTIVE.
C25_CustomerAlwaysAllowed ==
  [][\A r \in Reqs :
       (req[r].pc = "idle" /\ req'[r].op = "canAddCustomer") =>
         LET current == CurrentSubscription(req'[r].id, req'[r].role)
         IN /\ req'[r].role = "CUSTOMER" => req'[r].cap.canAdd
            /\ (req'[r].role \in {"ADMIN", "TRAINER"}
                /\ \A s \in current : s.status # "ACTIVE")
               => (/\ ~req'[r].cap.canAdd
                   /\ req'[r].cap.currentCustomers = 0
                   /\ req'[r].cap.maxCustomers = 0
                   /\ req'[r].cap.remaining = 0)]_vars

\* the subscriptions an account owns, and the payments under them
OwnedSubscriptions(id, role) == {s \in subscription : s.userId = id /\ s.userType = role}
OwnedPayments(id, role) ==
  {p \in payment : \E s \in OwnedSubscriptions(id, role) : s.id = p.subscriptionId}

\* C26: a deleteUser(id, role) that succeeds removes exactly the
\* subscriptions owned by (id, role) and the payments under them, in either
\* revision of the cascade; the rows of every other account are unchanged.
C26_CascadeRemovesOwnedRows ==
  [][\A r \in Reqs :
       (/\ req[r].op = "deleteUser" /\ req[r].pc = "txAccount"
        /\ req'[r].pc = "done" /\ req'[r].err = "NONE")
       => /\ subscription \ subscription' = OwnedSubscriptions(req[r].id, req[r].role)
          /\ payment \ payment' = OwnedPayments(req[r].id, req[r].role)
          /\ subscription' \subseteq subscription
          /\ payment' \subseteq payment]_vars

\* the payments recorded under the subscriptions of the account of a handle
PaymentsOfHandle(subs, pays, h) ==
  {p \in pays : \E s \in RowsOfHandle(subs, h) : s.id = p.subscriptionId}

\* the account of the handle has one subscription, on a paid plan, not yet
\* activated, without a handle and without a payment
AwaitingFirstPayment(h) ==
  /\ Cardinality(RowsOfHandle(subscription, h)) = 1
  /\ \A s \in RowsOfHandle(subscription, h) :
       s.status = "INACTIVE" /\ s.stripeSubscriptionId = NULL /\ PlanPriceCents(s.plan) > 0
  /\ PaymentsOfHandle(subscription, payment, h) = {}

\* C27: for the first payment of a subscription, handling checkout completed
\* and then payment succeeded, or payment succeeded and then checkout
\* completed, ends with the same number of Payment rows for it: one.
C27_WebhookOrderIrrelevant ==
  \A h \in Handles :
    AwaitingFirstPayment(h) =>
      LET n == nextId["PAY"]
          pid == PaymentHandleOf(h, 1)
          c1 == CheckoutCompletedRun(subscription, payment, n + 1, h)
          c2 == PaymentSucceededRun(c1.subs, c1.pays, n + 2, h, pid)
          p1 == PaymentSucceededRun(subscription, payment, n + 1, h, pid)
          p2 == CheckoutCompletedRun(p1.subs, p1.pays, n + 2, h)
      IN /\ Cardinality(PaymentsOfHandle(c2.subs, c2.pays, h)) = 1
         /\ Cardinality(PaymentsOfHandle(p2.subs, p2.pays, h)) = 1

\* the requests that issue a token pair in this step
IssuesTokens(r) ==
  /\ req[r].pc = "idle"
  /\ req'[r].op \in {"login", "refreshAccessToken"}
  /\ req'[r].res = "TOKENS_ISSUED"

\* C28: while an Admin or Trainer is suspended no request issues tokens for
\* it: neither a login nor a refresh with a token stored before the
\* suspension succeeds until the account is activated again.
C28_NoTokensWhileSuspended ==
  [][\A r \in Reqs :
       (IssuesTokens(r) /\ req'[r].role \in {"ADMIN", "TRAINER"})
       => profile[req'[r].id].status = "ACTIVE"]_vars

\* the refunds the payment processor has accepted for a payment
AcceptedRefunds(paymentId) ==
  {r \in Reqs : /\ req[r].op = "processSubscriptionRefund" /\ req[r].pc = "done"
                /\ req[r].err = "NONE" /\ req[r].paymentId = paymentId}

RECURSIVE RefundedTotal(_)
RefundedTotal(S) ==
  IF S = {} THEN 0
  ELSE LET r == CHOOSE x \in S : TRUE IN req[r].amount + RefundedTotal(S \ {r})

\* C29: the refunds made for one payment never add up to more than its
\* amount, and a refund larger than the payment never reaches the payment
\* processor.
C29_RefundsWithinPayment ==
  /\ \A p \in payment : RefundedTotal(AcceptedRefunds(p.id)) <= p.amount
  /\ \A r \in Reqs : \A p \in payment :
       (req[r].op = "processSubscriptionRefund" /\ req[r].pc = "refund"
        /\ req[r].paymentId = p.id) => req[r].amount <= p.amount

====
